---- MODULE Spec2Model ----
(***************************************************************************)
(* Document Layout Reconstruction Engine of magic_pdf.                     *)
(*                                                                         *)
(* The parts of the page pipeline are modelled each with its own           *)
(* specification over the module's variables:                              *)
(*   SpecBlocks  Block Synthesis (ocr_prepare_bboxes_for_layout_split_v2), *)
(*               one action per pass of the function;                      *)
(*   SpecSpans   span de-duplication and span assignment;                  *)
(*   SpecOrder   reading-order assignment (sort_lines_by_model and         *)
(*               cal_block_index);                                         *)
(*   SpecGrid    the xy-cut branch of cal_block_index on grids of blocks;  *)
(*   SpecGroup   regrouping of Image and Table fragments;                  *)
(*   SpecDoc     the page loops of pdf_parse_union and UnionParser;        *)
(*   SpecText    span content reconstruction (txt_spans_extract_v2);       *)
(*   SpecGeometry  the box relations of libs/boxbase.py on pairs of boxes; *)
(*   SpecLines   insert_lines_into_block on single blocks;                 *)
(*   SpecMerge   merge_spans_to_line and line_sort_spans_by_left_to_right; *)
(*   SpecAtom    AtomModelSingleton called by one thread;                  *)
(*   SpecCoreModels    the ModelSingleton of pdf_parse_union_core_v2       *)
(*               called by threads;                                        *)
(*   SpecCustomModels  the ModelSingleton of doc_analyze_by_custom_model   *)
(*               called by threads.                                        *)
(* Spec is their union: a behaviour is a run of one of the parts.          *)
(*                                                                         *)
(* A bbox is <<x0, y0, x1, y1>> with integer coordinates.  A ratio that the *)
(* code computes as a float quotient is kept as the pair <<num, den>> and  *)
(* compared by cross multiplication, which is exact for these integers.    *)
(* Python lists are sequences; list equality is value equality.            *)
(***************************************************************************)
EXTENDS Integers, Sequences, FiniteSets, TLC

VARIABLES
    part,                  \* which part of the pipeline this behaviour runs
    \* ---- Block Synthesis
    pc,                    \* position inside ocr_prepare_bboxes_for_layout_split_v2
    proposals,             \* typed region proposals, in detector order
    discarded_blocks,      \* the Discarded proposals (bbox, score)
    all_bboxes,            \* the working list of blocks
    all_discarded_blocks,  \* the discarded list being built
    \* ---- span de-duplication and assignment (parse_page_core, steps 4 to 9.1)
    spc,                   \* position in the span steps of parse_page_core
    all_spans,             \* the spans of the page as first received
    spans,                 \* the span list, mutated in place by every step
    dropped_low,           \* dropped list of remove_overlaps_low_confidence_spans
    dropped_min,           \* dropped list of remove_overlaps_min_spans
    fill_discarded,        \* the discarded blocks handed to fill_spans_in_blocks
    fill_blocks,           \* the kept blocks handed to fill_spans_in_blocks
    discarded_block_with_spans,
    block_with_spans,
    \* ---- reading-order assignment (parse_page_core, steps 9.3 to 10)
    opc,                   \* position in the reading-order steps
    fix_blocks,            \* the blocks of the page with their lines
    line_height,           \* result of get_line_height
    page_line_list,        \* the line boxes sort_lines_by_model collected
    prediction,            \* what the layoutreader call did, once it was made
    model_calls,           \* number of calls of the layoutreader model
    sorted_bboxes,         \* result of sort_lines_by_model
    strategy,              \* the branch cal_block_index took
    sorted_blocks,         \* the blocks handed to the page result
    page_result,           \* how parse_page_core ended
    \* ---- document parsing (pdf_parse_union, UnionParser.parse_document)
    dpc,                   \* position in the page loop and in the page parser
    parser,                \* "core": pdf_parse_union, "union": UnionParser
    parse_mode,            \* the parse mode the caller passed
    dataset,               \* the pages of the document
    start_page_id,         \* the first page the caller asked for
    page_id,               \* the page being parsed, counted from 0
    pdf_info_dict,         \* the page results so far, in page order
    exception,             \* the exception that reached the caller, if any
    \* ---- span content reconstruction (txt_spans_extract_v2)
    tpc,                   \* position in txt_spans_extract_v2
    txt_spans,             \* the span list the function received and returns
    all_pymu_chars,        \* the glyphs the PDF library extracted for the page
    need_ocr_spans,        \* the spans still to be sent to the OCR fallback
    ocr_calls,             \* what the fallback saw for each span routed to it
    \* ---- pure functions applied to bounded inputs (boxbase, virtual lines, line merging)
    cpc,                   \* "call" before the functions are applied, "returned" after
    args,                  \* the arguments
    ret,                   \* what the functions returned
    \* ---- the model singletons and the threads that call them
    thread_pc,             \* where each calling thread is
    shared,                \* the class attributes of the singleton
    local                  \* what each thread holds and was returned

blockVars == <<pc, proposals, discarded_blocks, all_bboxes, all_discarded_blocks>>

spanVars == <<spc, all_spans, spans, dropped_low, dropped_min, fill_discarded,
              fill_blocks, discarded_block_with_spans, block_with_spans>>

orderVars == <<opc, fix_blocks, line_height, page_line_list, prediction, model_calls,
               sorted_bboxes, strategy, sorted_blocks, page_result>>

docVars == <<dpc, parser, parse_mode, dataset, start_page_id, page_id, pdf_info_dict,
             exception>>

textVars == <<tpc, txt_spans, all_pymu_chars, need_ocr_spans, ocr_calls>>

callVars == <<cpc, args, ret>>

singletonVars == <<thread_pc, shared, local>>

\* what the passes of Block Synthesis leave alone
notBlockVars == <<spanVars, orderVars, docVars, textVars, callVars, singletonVars>>

\* what the span steps leave alone
notSpanVars == <<blockVars, orderVars, docVars, textVars, callVars, singletonVars>>

\* what the reading-order steps leave alone
notOrderVars == <<blockVars, spanVars, docVars, textVars, callVars, singletonVars>>

\* what document parsing leaves alone
notDocVars == <<blockVars, spanVars, orderVars, textVars, callVars, singletonVars>>

\* what span content reconstruction leaves alone
notTextVars == <<blockVars, spanVars, orderVars, docVars, callVars, singletonVars>>

notCallVars == <<blockVars, spanVars, orderVars, docVars, textVars, singletonVars>>

notSingletonVars == <<blockVars, spanVars, orderVars, docVars, textVars, callVars>>

vars == <<part, blockVars, spanVars, orderVars, docVars, textVars, callVars, singletonVars>>

-----------------------------------------------------------------------------
(* Generic helpers for Python list operations *)

Max(a, b) == IF a >= b THEN a ELSE b
Min(a, b) == IF a <= b THEN a ELSE b

\* v in s
InSeq(s, v) == \E i \in 1..Len(s) : s[i] = v

\* list.remove(v): drops the first element equal to v
RemoveAt(s, p) == [i \in 1..(Len(s) - 1) |-> IF i < p THEN s[i] ELSE s[i + 1]]

FirstPos(s, v) == CHOOSE p \in 1..Len(s) : s[p] = v /\ \A q \in 1..(p - 1) : s[q] # v

ListRemove(s, v) == IF InSeq(s, v) THEN RemoveAt(s, FirstPos(s, v)) ELSE s

RECURSIVE RemoveEach(_, _)
RemoveEach(s, vs) ==
    IF vs = <<>> THEN s ELSE RemoveEach(ListRemove(s, Head(vs)), Tail(vs))

\* if v not in s: s.append(v)
AppendNew(s, v) == IF InSeq(s, v) THEN s ELSE Append(s, v)

Range(s) == {s[i] : i \in 1..Len(s)}

Distinct(s) == \A i, j \in 1..Len(s) : i # j => s[i] # s[j]

\* number of positions of s holding v
Count(s, v) == Cardinality({i \in 1..Len(s) : s[i] = v})

-----------------------------------------------------------------------------
(* Geometry kernel: magic_pdf/libs/boxbase.py *)

NoBox == <<>>

Zero == <<0, 1>>

\* r > n/d and r >= n/d for a ratio r = <<num, den>>, den > 0
RatioGt(r, n, d) == r[1] * d > n * r[2]
RatioGe(r, n, d) == r[1] * d >= n * r[2]

box_area(b) == (b[3] - b[1]) * (b[4] - b[2])

\* the intersection rectangle; NoBox when x_right < x_left or y_bottom < y_top
Intersection(b1, b2) ==
    LET x_left == Max(b1[1], b2[1])
        y_top == Max(b1[2], b2[2])
        x_right == Min(b1[3], b2[3])
        y_bottom == Min(b1[4], b2[4])
    IN  IF x_right < x_left \/ y_bottom < y_top
        THEN NoBox
        ELSE <<x_left, y_top, x_right, y_bottom>>

\* variant: the intersection over the area of the first box
calculate_iou_OverFirstArea(bbox1, bbox2) ==
    LET i == Intersection(bbox1, bbox2)
    IN  IF i = NoBox THEN Zero
        ELSE IF box_area(bbox1) = 0 \/ box_area(bbox2) = 0 THEN Zero
        ELSE <<box_area(i), box_area(bbox1)>>

calculate_iou(bbox1, bbox2) ==
    LET i == Intersection(bbox1, bbox2)
    IN  IF i = NoBox THEN Zero
        ELSE IF box_area(bbox1) = 0 \/ box_area(bbox2) = 0 THEN Zero
        ELSE <<box_area(i), box_area(bbox1) + box_area(bbox2) - box_area(i)>>

calculate_overlap_area_2_minbox_area_ratio(bbox1, bbox2) ==
    LET i == Intersection(bbox1, bbox2)
        min_box_area == Min(box_area(bbox1), box_area(bbox2))
    IN  IF i = NoBox THEN Zero
        ELSE IF min_box_area = 0 THEN Zero
        ELSE <<box_area(i), min_box_area>>

calculate_overlap_area_in_bbox1_area_ratio(bbox1, bbox2) ==
    LET i == Intersection(bbox1, bbox2)
    IN  IF i = NoBox THEN Zero
        ELSE IF box_area(bbox1) = 0 THEN Zero
        ELSE <<box_area(i), box_area(bbox1)>>

\* the smaller box when the overlap exceeds n/d of the smaller area, else NoBox
get_minbox_if_overlap_by_ratio(bbox1, bbox2, n, d) ==
    IF RatioGt(calculate_overlap_area_2_minbox_area_ratio(bbox1, bbox2), n, d)
    THEN IF box_area(bbox1) <= box_area(bbox2) THEN bbox1 ELSE bbox2
    ELSE NoBox

calculate_vertical_projection_overlap_ratio(block1, block2) ==
    LET x_left == Max(block1[1], block2[1])
        x_right == Min(block1[3], block2[3])
    IN  IF x_right < x_left THEN Zero
        ELSE IF block1[3] - block1[1] = 0 THEN Zero
        ELSE <<x_right - x_left, block1[3] - block1[1]>>

UnionBox(a, b) == <<Min(a[1], b[1]), Min(a[2], b[2]), Max(a[3], b[3]), Max(a[4], b[4])>>

-----------------------------------------------------------------------------
(* Block Synthesis: magic_pdf/pre_proc/ocr_detect_all_bboxes.py            *)
(* A block is the list [x0,y0,x1,y1,None,None,None,type,None,...,score     *)
(* (,group_id)] of add_bboxes, kept as a record; NoGroup stands for the    *)
(* missing last element of the blocks that carry no group id.              *)

ImageBody == "image_body"
ImageCaption == "image_caption"
ImageFootnote == "image_footnote"
TableBody == "table_body"
TableCaption == "table_caption"
TableFootnote == "table_footnote"
Text == "text"
Title == "title"
InterlineEquation == "interline_equation"
Discarded == "discarded"

NoGroup == -1

GroupTypes == {ImageBody, ImageCaption, ImageFootnote, TableBody, TableCaption, TableFootnote}

\* the order in which ocr_prepare_bboxes_for_layout_split_v2 flattens its lists
CategoryOrder ==
    <<ImageBody, ImageCaption, ImageFootnote, TableBody, TableCaption,
      TableFootnote, Text, Title, InterlineEquation>>

Block(bbox, type, score, gid) ==
    [bbox |-> bbox, type |-> type, score |-> score,
     group_id |-> IF type \in GroupTypes THEN gid ELSE NoGroup]

OfType(s, t) == SelectSeq(s, LAMBDA b : b.type = t)

\* add_bboxes(blocks, block_type, bboxes)
add_bboxes(blocks, block_type, bboxes) ==
    bboxes \o [i \in 1..Len(blocks) |->
                 Block(blocks[i].bbox, block_type, blocks[i].score, blocks[i].group_id)]

RECURSIVE FlattenFrom(_, _, _)
FlattenFrom(props, k, acc) ==
    IF k > Len(CategoryOrder) THEN acc
    ELSE FlattenFrom(props, k + 1,
                     add_bboxes(OfType(props, CategoryOrder[k]), CategoryOrder[k], acc))

\* lines 110-120: the nine add_bboxes calls
FlattenProposals(props) == FlattenFrom(props, 1, <<>>)

\* the loops of fix_text_overlap_title_blocks and of
\* fix_interline_equation_overlap_text_blocks_with_hi_iou: for each outer
\* block, for each inner block, the inner block is marked when iou > 0.8
RECURSIVE HiIouScan(_, _, _, _, _)
HiIouScan(outer, inner, i, j, need_remove) ==
    IF i > Len(outer) THEN need_remove
    ELSE IF j > Len(inner) THEN HiIouScan(outer, inner, i + 1, 1, need_remove)
    ELSE HiIouScan(outer, inner, i, j + 1,
                   IF RatioGt(calculate_iou(outer[i].bbox, inner[j].bbox), 8, 10)
                   THEN AppendNew(need_remove, inner[j])
                   ELSE need_remove)

\* a text-over-title pass that drops the Text of the pair instead of the Title
fix_text_overlap_title_blocks_DropsText(bboxes) ==
    RemoveEach(bboxes, HiIouScan(OfType(bboxes, Title), OfType(bboxes, Text), 1, 1, <<>>))

\* text over title: the Title of a Text/Title pair with iou > 0.8 is removed
fix_text_overlap_title_blocks(bboxes) ==
    RemoveEach(bboxes, HiIouScan(OfType(bboxes, Text), OfType(bboxes, Title), 1, 1, <<>>))

\* equation over text: the Text of an InterlineEquation/Text pair with iou > 0.8 is removed
fix_interline_equation_overlap_text_blocks_with_hi_iou(bboxes) ==
    RemoveEach(bboxes,
               HiIouScan(OfType(bboxes, InterlineEquation), OfType(bboxes, Text), 1, 1, <<>>))

RECURSIVE NeedDropScan(_, _, _, _)
NeedDropScan(bboxes, discarded, i, need_remove) ==
    IF i > Len(bboxes) THEN need_remove
    ELSE NeedDropScan(bboxes, discarded, i + 1,
            IF \E k \in 1..Len(discarded) :
                   RatioGt(calculate_overlap_area_in_bbox1_area_ratio(
                               bboxes[i].bbox, discarded[k].bbox), 6, 10)
            THEN AppendNew(need_remove, bboxes[i])
            ELSE need_remove)

\* a discard-wins pass that uses the 0.8 threshold of the neighbouring passes
remove_need_drop_blocks_Threshold08(bboxes, discarded) ==
    SelectSeq(bboxes, LAMBDA b :
        ~\E k \in 1..Len(discarded) :
            RatioGt(calculate_overlap_area_in_bbox1_area_ratio(b.bbox, discarded[k].bbox), 8, 10))

\* discard wins: a block lying by more than 0.6 of its area in a Discarded
\* proposal is removed from the working list (and goes nowhere else)
remove_need_drop_blocks(bboxes, discarded) ==
    RemoveEach(bboxes, NeedDropScan(bboxes, discarded, 1, <<>>))

\* lines 139-143: the Discarded proposals that count as footnotes
IsFootnote(bbox, page_w, page_h) ==
    /\ (bbox[3] - bbox[1]) * 3 > page_w
    /\ (bbox[4] - bbox[2]) > 10
    /\ bbox[2] * 2 > page_h

FootnoteBlocks(discarded, page_w, page_h) ==
    LET d == SelectSeq(discarded, LAMBDA x : IsFootnote(x.bbox, page_w, page_h))
    IN  [i \in 1..Len(d) |-> d[i].bbox]

UnderFootnote(bbox, footnote_bbox) ==
    /\ bbox[2] >= footnote_bbox[4]
    /\ RatioGe(calculate_vertical_projection_overlap_ratio(bbox, footnote_bbox), 8, 10)

RECURSIVE FootnoteScan(_, _, _, _, _)
FootnoteScan(bboxes, footnote_blocks, i, need_remove_blocks, processed_blocks) ==
    IF i > Len(bboxes) THEN need_remove_blocks
    ELSE IF bboxes[i].bbox \in processed_blocks
         THEN FootnoteScan(bboxes, footnote_blocks, i + 1, need_remove_blocks, processed_blocks)
    ELSE IF \E k \in 1..Len(footnote_blocks) : UnderFootnote(bboxes[i].bbox, footnote_blocks[k])
         THEN FootnoteScan(bboxes, footnote_blocks, i + 1,
                           Append(need_remove_blocks, bboxes[i]),
                           processed_blocks \cup {bboxes[i].bbox})
    ELSE FootnoteScan(bboxes, footnote_blocks, i + 1, need_remove_blocks, processed_blocks)

\* the blocks to move from the working list to the discarded list
find_blocks_under_footnote(bboxes, footnote_blocks) ==
    FootnoteScan(bboxes, footnote_blocks, 1, <<>>, {})

(* remove_overlaps_min_blocks mutates the blocks of its list in place and   *)
(* keeps references to them in need_remove.  The scan state is              *)
(*   boxes      the list with the current value of every block (a block's   *)
(*              position is its identity; the list is not restructured      *)
(*              during the scan),                                           *)
(*   need       need_remove, as positions,                                  *)
(*   processed  processed_blocks, a set of bbox tuples.                     *)

\* next(block for block in all_bboxes if tuple(block[:4]) == tuple(overlap_box))
FirstWithBox(boxes, overlap_box) ==
    CHOOSE p \in 1..Len(boxes) :
        /\ boxes[p].bbox = overlap_box
        /\ \A q \in 1..(p - 1) : boxes[q].bbox # overlap_box

\* block_to_remove not in need_remove (list membership compares values)
NotInNeed(st, p) == \A m \in 1..Len(st.need) : st.boxes[st.need[m]] # st.boxes[p]

\* lines 305-334: the body of the inner loop for block1 = boxes[i], block2 = boxes[j]
MinBlocksPair(st, i, j, block1_key) ==
    IF st.boxes[i] = st.boxes[j] THEN st
    ELSE IF st.boxes[j].bbox \in st.processed THEN st
    ELSE LET overlap_box ==
                 get_minbox_if_overlap_by_ratio(st.boxes[i].bbox, st.boxes[j].bbox, 8, 10)
         IN  IF overlap_box = NoBox THEN st
             ELSE LET btr == FirstWithBox(st.boxes, overlap_box)
                  IN  IF ~NotInNeed(st, btr) THEN st
                      ELSE LET large == IF st.boxes[i] # st.boxes[btr] THEN i ELSE j
                               merged == UnionBox(st.boxes[large].bbox, st.boxes[btr].bbox)
                               boxes2 == [st.boxes EXCEPT ![large].bbox = merged]
                           IN  [boxes |-> boxes2,
                                need |-> Append(st.need, btr),
                                processed |-> st.processed
                                                \cup {boxes2[btr].bbox, block1_key}]

RECURSIVE MinBlocksInner(_, _, _, _)
MinBlocksInner(st, i, j, block1_key) ==
    IF j > Len(st.boxes) THEN st
    ELSE MinBlocksInner(MinBlocksPair(st, i, j, block1_key), i, j + 1, block1_key)

RECURSIVE MinBlocksOuter(_, _)
MinBlocksOuter(st, i) ==
    IF i > Len(st.boxes) THEN st
    ELSE IF st.boxes[i].bbox \in st.processed THEN MinBlocksOuter(st, i + 1)
    ELSE MinBlocksOuter(MinBlocksInner(st, i, 1, st.boxes[i].bbox), i + 1)

\* lines 336-339: for block in need_remove: if block in all_bboxes: remove it.
\* live holds the positions still in the list; the first live block equal in
\* value to the block to remove is the one that goes
RECURSIVE MinBlocksRemove(_, _, _)
MinBlocksRemove(boxes, live, need) ==
    IF need = <<>> THEN [k \in 1..Len(live) |-> boxes[live[k]]]
    ELSE LET v == boxes[Head(need)]
             hit == {k \in 1..Len(live) : boxes[live[k]] = v}
         IN  IF hit = {} THEN MinBlocksRemove(boxes, live, Tail(need))
             ELSE MinBlocksRemove(boxes,
                                  RemoveAt(live, CHOOSE k \in hit : \A h \in hit : k <= h),
                                  Tail(need))

\* containment collapse: one scan over all ordered pairs, then the removals
remove_overlaps_min_blocks(bboxes) ==
    LET st == MinBlocksOuter([boxes |-> bboxes, need |-> <<>>, processed |-> {}], 1)
    IN  MinBlocksRemove(st.boxes, [k \in 1..Len(bboxes) |-> k], st.need)

\* list.sort(key=lambda x: x[0]+x[1]): a stable sort
SortKey(b) == b.bbox[1] + b.bbox[2]

RECURSIVE InsertSorted(_, _)
InsertSorted(s, b) ==
    IF s = <<>> THEN <<b>>
    ELSE IF SortKey(s[Len(s)]) <= SortKey(b) THEN Append(s, b)
    ELSE Append(InsertSorted(SubSeq(s, 1, Len(s) - 1), b), s[Len(s)])

RECURSIVE SortByXPlusY(_, _)
SortByXPlusY(s, acc) ==
    IF s = <<>> THEN acc ELSE SortByXPlusY(Tail(s), InsertSorted(acc, Head(s)))

\* lines 134-150: build the discarded list and move the blocks under a
\* footnote from the working list to it; the result is <<kept, discarded>>
MoveUnderFootnote(bboxes, discarded, page_w, page_h) ==
    LET need_remove_blocks ==
            find_blocks_under_footnote(bboxes, FootnoteBlocks(discarded, page_w, page_h))
    IN  <<RemoveEach(bboxes, need_remove_blocks),
          add_bboxes([i \in 1..Len(discarded) |->
                         [bbox |-> discarded[i].bbox, score |-> discarded[i].score,
                          group_id |-> NoGroup]],
                     Discarded, <<>>) \o need_remove_blocks>>

\* lines 152-158: collapse both lists, sort the kept one
CollapseAndSort(kept, disc) ==
    <<SortByXPlusY(remove_overlaps_min_blocks(kept), <<>>),
      remove_overlaps_min_blocks(disc)>>

\* the whole function: <<all_bboxes, all_discarded_blocks>>
ocr_prepare_bboxes_for_layout_split_v2(props, discarded, page_w, page_h) ==
    LET flat == FlattenProposals(props)
        t == fix_text_overlap_title_blocks(flat)
        d == remove_need_drop_blocks(t, discarded)
        e == fix_interline_equation_overlap_text_blocks_with_hi_iou(d)
        m == MoveUnderFootnote(e, discarded, page_w, page_h)
    IN  CollapseAndSort(m[1], m[2])

-----------------------------------------------------------------------------
(* Block Synthesis as a state machine: the inputs are chosen in the initial *)
(* state, each action is one pass of                                        *)
(* ocr_prepare_bboxes_for_layout_split_v2, in the order of the code.        *)

MaxBlocks == 3
MaxDiscarded == 2

\* page_w, page_h
PageSize == <<600, 800>>

\* The typed proposals a page may carry.  The boxes are chosen to meet the
\* thresholds of every pass from both sides: [0,0,100,45] has iou 0.9 with
\* [0,0,100,50]; [0,10,10,58] lies by 0.83 of its area in [0,0,100,50];
\* [50,50,100,58] only touches [0,0,100,50] but lies inside its union with
\* [0,10,10,58]; [0,730,600,760] is under the footnote [0,700,600,720] and
\* [0,719,600,800] starts one unit above the footnote's lower edge.
ProposalUniverse ==
    { Block(<<0, 0, 100, 50>>, Text, 9, NoGroup),
      Block(<<0, 0, 100, 50>>, Title, 7, NoGroup),
      Block(<<0, 0, 100, 45>>, Title, 9, NoGroup),
      Block(<<0, 0, 100, 45>>, InterlineEquation, 9, NoGroup),
      Block(<<0, 10, 10, 58>>, Text, 9, NoGroup),
      Block(<<50, 50, 100, 58>>, Text, 9, NoGroup),
      Block(<<0, 730, 600, 760>>, Text, 9, NoGroup),
      Block(<<0, 730, 600, 760>>, ImageBody, 9, 0),
      Block(<<0, 719, 600, 800>>, Text, 9, NoGroup) }

\* The Discarded proposals a page may carry: a footnote, a header box that
\* covers 0.64 of [0,0,100,50], and a second footnote inside the first.
DiscardedUniverse ==
    { [bbox |-> <<0, 700, 600, 720>>, score |-> 9],
      [bbox |-> <<0, 0, 100, 32>>, score |-> 9],
      [bbox |-> <<0, 700, 300, 720>>, score |-> 8] }

\* lists of pairwise different elements of S, of length at most n
DistinctSeqs(S, n) == {s \in UNION {[1..k -> S] : k \in 0..n} : Distinct(s)}

\* sorted_bboxes is None, or a list of boxes
None == [none |-> TRUE, boxes |-> <<>>]

SomeBoxes(boxes) == [none |-> FALSE, boxes |-> boxes]

\* the layoutreader model has not been called
NoPrediction == [made |-> FALSE, raised |-> FALSE, orders |-> <<>>]

\* the reading-order steps have not been entered
OrderIdle ==
    /\ opc = "idle"
    /\ fix_blocks = <<>> /\ line_height = 0 /\ page_line_list = <<>>
    /\ prediction = NoPrediction /\ model_calls = 0
    /\ sorted_bboxes = None /\ strategy = "none"
    /\ sorted_blocks = <<>> /\ page_result = "pending"

\* the span steps have not been entered
CallIdle ==
    /\ cpc = "idle" /\ args = <<>> /\ ret = <<>>

SingletonIdle ==
    /\ thread_pc = <<>> /\ shared = <<>> /\ local = <<>>

TextIdle ==
    /\ tpc = "idle" /\ txt_spans = <<>> /\ all_pymu_chars = <<>>
    /\ need_ocr_spans = <<>> /\ ocr_calls = <<>>

DocIdle ==
    /\ dpc = "idle" /\ parser = "none" /\ parse_mode = "none"
    /\ dataset = <<>> /\ start_page_id = 0 /\ page_id = 0 /\ pdf_info_dict = <<>>
    /\ exception = "none"

SpansIdle ==
    /\ spc = "idle"
    /\ all_spans = <<>> /\ spans = <<>>
    /\ dropped_low = <<>> /\ dropped_min = <<>>
    /\ fill_discarded = <<>> /\ fill_blocks = <<>>
    /\ discarded_block_with_spans = <<>> /\ block_with_spans = <<>>

\* Block Synthesis has not been entered
BlocksIdle ==
    /\ pc = "idle"
    /\ proposals = <<>> /\ discarded_blocks = <<>>
    /\ all_bboxes = <<>> /\ all_discarded_blocks = <<>>

InitBlocks ==
    /\ part = "blocks"
    /\ pc = "start"
    /\ proposals \in DistinctSeqs(ProposalUniverse, MaxBlocks)
    /\ discarded_blocks \in DistinctSeqs(DiscardedUniverse, MaxDiscarded)
    /\ all_bboxes = <<>>
    /\ all_discarded_blocks = <<>>
    /\ SpansIdle
    /\ OrderIdle
    /\ DocIdle
    /\ TextIdle
    /\ CallIdle
    /\ SingletonIdle

\* lines 110-120
Flatten ==
    /\ part = "blocks" /\ pc = "start"
    /\ all_bboxes' = FlattenProposals(proposals)
    /\ pc' = "flattened"
    /\ UNCHANGED <<part, proposals, discarded_blocks, all_discarded_blocks, notBlockVars>>

\* line 124
FixTextOverlapTitle ==
    /\ part = "blocks" /\ pc = "flattened"
    /\ all_bboxes' = fix_text_overlap_title_blocks(all_bboxes)
    /\ pc' = "title_fixed"
    /\ UNCHANGED <<part, proposals, discarded_blocks, all_discarded_blocks, notBlockVars>>

\* line 126
RemoveNeedDrop ==
    /\ part = "blocks" /\ pc = "title_fixed"
    /\ all_bboxes' = remove_need_drop_blocks(all_bboxes, discarded_blocks)
    /\ pc' = "dropped"
    /\ UNCHANGED <<part, proposals, discarded_blocks, all_discarded_blocks, notBlockVars>>

\* line 130
FixInterlineEquation ==
    /\ part = "blocks" /\ pc = "dropped"
    /\ all_bboxes' = fix_interline_equation_overlap_text_blocks_with_hi_iou(all_bboxes)
    /\ pc' = "equation_fixed"
    /\ UNCHANGED <<part, proposals, discarded_blocks, all_discarded_blocks, notBlockVars>>

\* lines 134-150
FootnoteShadow ==
    /\ part = "blocks" /\ pc = "equation_fixed"
    /\ LET m == MoveUnderFootnote(all_bboxes, discarded_blocks, PageSize[1], PageSize[2])
       IN  /\ all_bboxes' = m[1]
           /\ all_discarded_blocks' = m[2]
    /\ pc' = "footnote_done"
    /\ UNCHANGED <<part, proposals, discarded_blocks, notBlockVars>>

\* lines 152-158
Collapse ==
    /\ part = "blocks" /\ pc = "footnote_done"
    /\ LET r == CollapseAndSort(all_bboxes, all_discarded_blocks)
       IN  /\ all_bboxes' = r[1]
           /\ all_discarded_blocks' = r[2]
    /\ pc' = "done"
    /\ UNCHANGED <<part, proposals, discarded_blocks, notBlockVars>>

NextBlocks ==
    \/ Flatten
    \/ FixTextOverlapTitle
    \/ RemoveNeedDrop
    \/ FixInterlineEquation
    \/ FootnoteShadow
    \/ Collapse

SpecBlocks == InitBlocks /\ [][NextBlocks]_vars

-----------------------------------------------------------------------------
(* Properties of Block Synthesis *)

\* the working list as each pass receives it, recomputed from the inputs
Flat == FlattenProposals(proposals)
BeforeDrop == fix_text_overlap_title_blocks(Flat)
BeforeEquation == remove_need_drop_blocks(BeforeDrop, discarded_blocks)
BeforeFootnote == fix_interline_equation_overlap_text_blocks_with_hi_iou(BeforeEquation)

HiIou(a, b) == RatioGt(calculate_iou(a.bbox, b.bbox), 8, 10)

InDiscardedProposal(b) ==
    \E k \in 1..Len(discarded_blocks) :
        RatioGt(calculate_overlap_area_in_bbox1_area_ratio(b.bbox, discarded_blocks[k].bbox),
                6, 10)

BoxesOf(s) == {s[i].bbox : i \in 1..Len(s)}

\* the first run's output fed back: kept blocks by their category, discarded
\* blocks as the Discarded proposals
SecondRun ==
    ocr_prepare_bboxes_for_layout_split_v2(
        all_bboxes,
        [i \in 1..Len(all_discarded_blocks) |->
            [bbox |-> all_discarded_blocks[i].bbox, score |-> all_discarded_blocks[i].score]],
        PageSize[1], PageSize[2])

\* C1 (as claimed): Block Synthesis is idempotent: run on its own output it
\* returns the same kept block set and the same discarded block set.
C1_Idempotent ==
    (part = "blocks" /\ pc = "done") =>
        /\ Range(SecondRun[1]) = Range(all_bboxes)
        /\ BoxesOf(SecondRun[2]) = BoxesOf(all_discarded_blocks)

OverlapsMin(a, b) ==
    RatioGt(calculate_overlap_area_2_minbox_area_ratio(a.bbox, b.bbox), 8, 10)

NoContainedPair(s) == \A i, j \in 1..Len(s) : i # j => ~OverlapsMin(s[i], s[j])

\* C4 (as claimed): containment collapse runs to a fixpoint: neither returned
\* list keeps two blocks whose intersection exceeds 0.8 of the smaller one.
C4_CollapseFixpoint ==
    (part = "blocks" /\ pc = "done") =>
        /\ NoContainedPair(all_bboxes)
        /\ NoContainedPair(all_discarded_blocks)

IsUnderSomeFootnote(b) ==
    \E k \in 1..Len(discarded_blocks) :
        /\ IsFootnote(discarded_blocks[k].bbox, PageSize[1], PageSize[2])
        /\ UnderFootnote(b.bbox, discarded_blocks[k].bbox)

\* C5 (as claimed): every working-set block under a footnote (y0 at or below
\* the footnote's y1, x overlap at least 0.8 of the block's width) is absent
\* from the kept output and present in the discarded output.
C5_FootnoteShadow ==
    (part = "blocks" /\ pc = "done") =>
        \A b \in Range(BeforeFootnote) :
            IsUnderSomeFootnote(b) =>
                /\ b \notin Range(all_bboxes)
                /\ b \in Range(all_discarded_blocks)

-----------------------------------------------------------------------------
(* Span de-duplication: magic_pdf/pre_proc/ocr_span_list_modify.py          *)
(* A span is a dict with bbox, type and score; the 'tag' key, absent until  *)
(* a span is dropped, is the value NoTag.                                   *)

SpanText == "text"
SpanInlineEquation == "inline_equation"
SpanInterlineEquation == "interline_equation"
SpanImage == "image"
SpanTable == "table"

NoTag == "none"
SPAN_OVERLAP == "span_overlap"

Span(bbox, type, score) == [bbox |-> bbox, type |-> type, score |-> score, tag |-> NoTag]

\* lines 21-37: the scan of all ordered pairs (span1, span2)
RECURSIVE LowConfidenceScan(_, _, _, _)
LowConfidenceScan(sp, i, j, dropped_spans) ==
    IF i > Len(sp) THEN dropped_spans
    ELSE IF j > Len(sp) THEN LowConfidenceScan(sp, i + 1, 1, dropped_spans)
    ELSE LowConfidenceScan(sp, i, j + 1,
            IF sp[i] = sp[j] THEN dropped_spans
            ELSE IF InSeq(dropped_spans, sp[i]) \/ InSeq(dropped_spans, sp[j])
                 THEN dropped_spans
            ELSE IF RatioGt(calculate_iou(sp[i].bbox, sp[j].bbox), 9, 10)
                 THEN AppendNew(dropped_spans,
                                IF sp[i].score < sp[j].score THEN sp[i] ELSE sp[j])
            ELSE dropped_spans)

\* lines 39-42 and 91-94: the dropped spans leave the list and are tagged
Tagged(dropped_spans) ==
    [k \in 1..Len(dropped_spans) |-> [dropped_spans[k] EXCEPT !.tag = SPAN_OVERLAP]]

\* a de-duplication that drops the span with the higher score of a pair
remove_overlaps_low_confidence_spans_DropsHigher(sp) ==
    LET keep == SelectSeq(sp, LAMBDA a :
                    \A k \in 1..Len(sp) :
                        (sp[k] # a /\ RatioGt(calculate_iou(a.bbox, sp[k].bbox), 9, 10))
                            => a.score < sp[k].score)
    IN  [spans |-> keep,
         dropped |-> Tagged(SelectSeq(sp, LAMBDA a : ~InSeq(keep, a)))]

\* returns (spans, dropped_spans)
remove_overlaps_low_confidence_spans(sp) ==
    LET dropped_spans == LowConfidenceScan(sp, 1, 1, <<>>)
    IN  [spans |-> RemoveEach(sp, dropped_spans), dropped |-> Tagged(dropped_spans)]

\* next(span for span in spans if span['bbox'] == overlap_box)
FirstSpanWithBox(sp, overlap_box) ==
    sp[CHOOSE p \in 1..Len(sp) :
          /\ sp[p].bbox = overlap_box
          /\ \A q \in 1..(p - 1) : sp[q].bbox # overlap_box]

\* lines 79-90
RECURSIVE MinSpansScan(_, _, _, _)
MinSpansScan(sp, i, j, dropped_spans) ==
    IF i > Len(sp) THEN dropped_spans
    ELSE IF j > Len(sp) THEN MinSpansScan(sp, i + 1, 1, dropped_spans)
    ELSE MinSpansScan(sp, i, j + 1,
            IF sp[i] = sp[j] THEN dropped_spans
            ELSE IF InSeq(dropped_spans, sp[i]) \/ InSeq(dropped_spans, sp[j])
                 THEN dropped_spans
            ELSE LET overlap_box ==
                         get_minbox_if_overlap_by_ratio(sp[i].bbox, sp[j].bbox, 65, 100)
                 IN  IF overlap_box = NoBox THEN dropped_spans
                     ELSE AppendNew(dropped_spans, FirstSpanWithBox(sp, overlap_box)))

\* a de-duplication that removes the smaller spans without returning them
remove_overlaps_min_spans_Silent(sp) ==
    [spans |-> RemoveEach(sp, MinSpansScan(sp, 1, 1, <<>>)), dropped |-> <<>>]

\* returns (spans, dropped_spans)
remove_overlaps_min_spans(sp) ==
    LET dropped_spans == MinSpansScan(sp, 1, 1, <<>>)
    IN  [spans |-> RemoveEach(sp, dropped_spans), dropped |-> Tagged(dropped_spans)]

-----------------------------------------------------------------------------
(* Span assignment: magic_pdf/pre_proc/ocr_dict_merge.py *)

\* variant: text spans also go to Discarded blocks
span_block_type_compatible_TextInDiscarded(span_type, block_type) ==
    IF span_type \in {SpanText, SpanInlineEquation}
    THEN block_type \in {Text, Title, ImageCaption, ImageFootnote, TableCaption,
                         TableFootnote, Discarded}
    ELSE IF span_type = SpanInterlineEquation THEN block_type \in {InterlineEquation}
    ELSE IF span_type = SpanImage THEN block_type \in {ImageBody}
    ELSE IF span_type = SpanTable THEN block_type \in {TableBody}
    ELSE FALSE

span_block_type_compatible(span_type, block_type) ==
    IF span_type \in {SpanText, SpanInlineEquation}
    THEN block_type \in {Text, Title, ImageCaption, ImageFootnote, TableCaption, TableFootnote}
    ELSE IF span_type = SpanInterlineEquation THEN block_type \in {InterlineEquation}
    ELSE IF span_type = SpanImage THEN block_type \in {ImageBody}
    ELSE IF span_type = SpanTable THEN block_type \in {TableBody}
    ELSE FALSE

\* line 128: the span goes to the block
SpanFits(span, block, n, d) ==
    /\ RatioGt(calculate_overlap_area_in_bbox1_area_ratio(span.bbox, block.bbox), n, d)
    /\ span_block_type_compatible(span.type, block.type)

\* lines 113-137: one block after the other takes its spans out of the pool
RECURSIVE FillScan(_, _, _, _, _, _)
FillScan(blocks, pool, n, d, k, acc) ==
    IF k > Len(blocks) THEN [blocks |-> acc, spans |-> pool]
    ELSE LET block_spans == SelectSeq(pool, LAMBDA sp : SpanFits(sp, blocks[k], n, d))
             block_dict == [type |-> blocks[k].type, bbox |-> blocks[k].bbox,
                            group_id |-> blocks[k].group_id, spans |-> block_spans]
         IN  FillScan(blocks, RemoveEach(pool, block_spans), n, d, k + 1,
                      Append(acc, block_dict))

\* an assignment that leaves the spans it hands out in the pool
fill_spans_in_blocks_KeepsPool(blocks, pool, n, d) ==
    [blocks |-> [k \in 1..Len(blocks) |->
                    [type |-> blocks[k].type, bbox |-> blocks[k].bbox,
                     group_id |-> blocks[k].group_id,
                     spans |-> SelectSeq(pool, LAMBDA sp : SpanFits(sp, blocks[k], n, d))]],
     spans |-> pool]

\* returns (block_with_spans, spans); radio is n/d
fill_spans_in_blocks(blocks, pool, n, d) == FillScan(blocks, pool, n, d, 1, <<>>)

-----------------------------------------------------------------------------
(* The span steps of parse_page_core as a state machine: steps 4.2, 6, 7    *)
(* and 9.1 of magic_pdf/pdf_parse_union_core_v2.py, in OCR parse mode       *)
(* (step 5 passes).  The spans of a page are pairwise different dicts.      *)

MaxSpans == 3

\* The spans a page may carry.  [10,10,20,20] twice with scores 4 and 8 is
\* the pair of equal boxes; [10,10,20,21] has iou 0.91 with it and
\* [10,10,20,22] has iou 0.92 with [10,10,20,21] but 0.83 with [10,10,20,20];
\* [10,10,30,20] contains [10,10,20,20] with iou 0.5; [60,51,90,57] lies in
\* both blocks [0,0,100,58] and [50,50,100,58]; [0,50,100,70] lies by 0.4 in
\* [0,0,100,58] and [0,45,100,65] by 0.65.
SpanUniverse ==
    { Span(<<10, 10, 20, 20>>, SpanText, 4),
      Span(<<10, 10, 20, 20>>, SpanText, 8),
      Span(<<10, 10, 20, 21>>, SpanText, 8),
      Span(<<10, 10, 20, 22>>, SpanText, 6),
      Span(<<10, 10, 30, 20>>, SpanText, 8),
      Span(<<60, 51, 90, 57>>, SpanInlineEquation, 8),
      Span(<<0, 45, 100, 65>>, SpanText, 8),
      Span(<<0, 50, 100, 70>>, SpanText, 8),
      Span(<<0, 730, 600, 760>>, SpanImage, 9),
      Span(<<0, 700, 300, 720>>, SpanText, 9) }

\* The block lists Block Synthesis may have left for the page: kept blocks
\* in reading position and discarded blocks.
FillPages ==
    { [kept |-> <<>>, discarded |-> <<>>],
      [kept |-> <<>>,
       discarded |-> <<Block(<<0, 700, 600, 720>>, Discarded, 9, NoGroup)>>],
      [kept |-> <<Block(<<0, 0, 100, 58>>, Text, 9, NoGroup)>>,
       discarded |-> <<Block(<<0, 700, 600, 720>>, Discarded, 9, NoGroup)>>],
      [kept |-> <<Block(<<0, 0, 100, 58>>, Text, 9, NoGroup),
                  Block(<<50, 50, 100, 58>>, Text, 9, NoGroup)>>,
       discarded |-> <<>>],
      [kept |-> <<Block(<<50, 50, 100, 58>>, Text, 9, NoGroup),
                  Block(<<0, 0, 100, 58>>, Title, 9, NoGroup)>>,
       discarded |-> <<Block(<<0, 700, 600, 720>>, Discarded, 9, NoGroup)>>],
      [kept |-> <<Block(<<0, 0, 100, 58>>, Text, 9, NoGroup),
                  Block(<<0, 730, 600, 760>>, ImageBody, 9, 0)>>,
       discarded |-> <<Block(<<0, 700, 600, 720>>, Discarded, 9, NoGroup)>>],
      \* the Text block lies under the footnote [0,600,600,620] and was moved
      \* to the discarded list (ocr_detect_all_bboxes.py lines 145-150)
      [kept |-> <<>>,
       discarded |-> <<Block(<<0, 600, 600, 620>>, Discarded, 9, NoGroup),
                       Block(<<0, 700, 600, 720>>, Discarded, 9, NoGroup),
                       Block(<<0, 710, 600, 760>>, Text, 9, NoGroup)>>] }

InitSpans ==
    /\ part = "spans"
    /\ spc = "start"
    /\ all_spans \in DistinctSeqs(SpanUniverse, MaxSpans)
    /\ spans = all_spans
    /\ dropped_low = <<>> /\ dropped_min = <<>>
    /\ \E page \in FillPages :
          /\ fill_blocks = page.kept
          /\ fill_discarded = page.discarded
    /\ discarded_block_with_spans = <<>> /\ block_with_spans = <<>>
    /\ BlocksIdle
    /\ OrderIdle
    /\ DocIdle
    /\ TextIdle
    /\ CallIdle
    /\ SingletonIdle

\* pdf_parse_union_core_v2.py line 998
RemoveLowConfidence ==
    /\ part = "spans" /\ spc = "start"
    /\ LET r == remove_overlaps_low_confidence_spans(spans)
       IN  /\ spans' = r.spans
           /\ dropped_low' = r.dropped
    /\ spc' = "low_done"
    /\ UNCHANGED <<part, all_spans, dropped_min, fill_discarded, fill_blocks,
                   discarded_block_with_spans, block_with_spans, notSpanVars>>

\* line 999
RemoveMin ==
    /\ part = "spans" /\ spc = "low_done"
    /\ LET r == remove_overlaps_min_spans(spans)
       IN  /\ spans' = r.spans
           /\ dropped_min' = r.dropped
    /\ spc' = "min_done"
    /\ UNCHANGED <<part, all_spans, dropped_low, fill_discarded, fill_blocks,
                   discarded_block_with_spans, block_with_spans, notSpanVars>>

\* lines 1012-1014
FillDiscarded ==
    /\ part = "spans" /\ spc = "min_done"
    /\ LET r == fill_spans_in_blocks(fill_discarded, spans, 4, 10)
       IN  /\ discarded_block_with_spans' = r.blocks
           /\ spans' = r.spans
    /\ spc' = "discarded_filled"
    /\ UNCHANGED <<part, all_spans, dropped_low, dropped_min, fill_discarded,
                   fill_blocks, block_with_spans, notSpanVars>>

\* lines 1018-1024: a page without kept blocks is returned at once
SkipEmptyPage ==
    /\ part = "spans" /\ spc = "discarded_filled"
    /\ Len(fill_blocks) = 0
    /\ spc' = "empty_page"
    /\ UNCHANGED <<part, all_spans, spans, dropped_low, dropped_min, fill_discarded,
                   fill_blocks, discarded_block_with_spans, block_with_spans,
                   notSpanVars>>

\* line 1033
FillKept ==
    /\ part = "spans" /\ spc = "discarded_filled"
    /\ Len(fill_blocks) # 0
    /\ LET r == fill_spans_in_blocks(fill_blocks, spans, 5, 10)
       IN  /\ block_with_spans' = r.blocks
           /\ spans' = r.spans
    /\ spc' = "filled"
    /\ UNCHANGED <<part, all_spans, dropped_low, dropped_min, fill_discarded,
                   fill_blocks, discarded_block_with_spans, notSpanVars>>

NextSpans ==
    \/ RemoveLowConfidence
    \/ RemoveMin
    \/ FillDiscarded
    \/ SkipEmptyPage
    \/ FillKept

SpecSpans == InitSpans /\ [][NextSpans]_vars

-----------------------------------------------------------------------------
(* Properties of the span steps *)

HiIouSpans(a, b) == RatioGt(calculate_iou(a.bbox, b.bbox), 9, 10)

\* the span as it was before it was tagged
Untagged(span) == [span EXCEPT !.tag = NoTag]

UntaggedAll(s) == [k \in 1..Len(s) |-> Untagged(s[k])]

Accounted(input, kept, dropped) ==
    /\ \A k \in 1..Len(dropped) : dropped[k].tag = SPAN_OVERLAP
    /\ \A x \in Range(input) :
          Count(kept, x) + Count(UntaggedAll(dropped), x) = Count(input, x)
    /\ Range(kept) \cup Range(UntaggedAll(dropped)) \subseteq Range(input)
    /\ Range(kept) \cap Range(UntaggedAll(dropped)) = {}
    /\ Range(kept) \cap Range(dropped) = {}

\* C8: each de-duplication pass returns every span it removes in its dropped
\* list, tagged SPAN_OVERLAP; kept and dropped are disjoint and together hold
\* exactly the spans the pass received.
C8_DroppedAccounted ==
    [][ /\ RemoveLowConfidence => Accounted(spans, spans', dropped_low')
        /\ RemoveMin => Accounted(spans, spans', dropped_min') ]_vars

\* both passes have dropped a span
C8_Witness ==
    /\ spc = "min_done"
    /\ Len(dropped_low) > 0
    /\ Len(dropped_min) > 0
    /\ Len(spans) > 0

\* the number of blocks of the list that hold the span
RECURSIVE Holders(_, _)
Holders(blocks, x) ==
    IF blocks = <<>> THEN 0
    ELSE (IF InSeq(Head(blocks).spans, x) THEN 1 ELSE 0) + Holders(Tail(blocks), x)

NeverDoubleAssigned(blocks, pool, filled, leftover) ==
    /\ Len(filled) = Len(blocks)
    /\ \A x \in Range(pool) : Holders(filled, x) <= 1
    /\ \A k \in 1..Len(filled) :
          /\ Distinct(filled[k].spans)
          /\ Range(filled[k].spans) \subseteq Range(pool)
    /\ leftover = SelectSeq(pool, LAMBDA x : Holders(filled, x) = 0)

\* C2: fill_spans_in_blocks puts each input span into at most one block, the
\* span lists of the blocks are pairwise disjoint and hold input spans only,
\* and the leftover list is the input spans that went to no block.
C2_NeverDoubleAssigns ==
    [][ /\ FillDiscarded =>
              NeverDoubleAssigned(fill_discarded, spans,
                                  discarded_block_with_spans', spans')
        /\ FillKept =>
              NeverDoubleAssigned(fill_blocks, spans, block_with_spans', spans') ]_vars

\* a span that fits two blocks of the page went to the first of them, and
\* another span was left over
C2_Witness ==
    /\ spc = "filled"
    /\ Len(block_with_spans) = 2
    /\ \E x \in Range(block_with_spans[1].spans) : SpanFits(x, fill_blocks[2], 5, 10)
    /\ Len(spans) > 0

-----------------------------------------------------------------------------
(* Reading-order assignment: magic_pdf/pdf_parse_union_core_v2.py           *)
(*                                                                         *)
(* Lengths of this part are in sixths of a point and the boxes that come   *)
(* in lie on whole points, so that the halves (medians) and the thirds     *)
(* (block_height / 3) the code computes as floats are integers here.  A    *)
(* line is [bbox, index]; a block of fix_blocks is [type, bbox, group_id,  *)
(* lines, has_real_lines, real_lines, virtual_lines, index], where         *)
(* has_real_lines says that the dict has the key 'real_lines'.  A line's   *)
(* index is an integer; a block's index is kept in quarters, because it is *)
(* a median of line indices and the index of a group a median of those.    *)

Unit == 2 * 3

NoIndex == -1

IndexUnit == 2 * 2

\* layoutreader最高支持512line: the limit the code compares with
CapacityLimit == 200

DefaultLineHeight == 10

TextTypes == {Text, Title, ImageCaption, ImageFootnote, TableCaption, TableFootnote}

Line(bbox) == [bbox |-> bbox, index |-> NoIndex]

FixBlock(type, bbox, gid, lines) ==
    [type |-> type, bbox |-> bbox,
     group_id |-> IF type \in GroupTypes THEN gid ELSE NoGroup,
     lines |-> lines, has_real_lines |-> FALSE, real_lines |-> <<>>,
     virtual_lines |-> <<>>, index |-> NoIndex]

\* sorted(data)[r - 1]: the value of rank r
Ranked(data, r) ==
    CHOOSE v \in Range(data) :
        /\ Cardinality({i \in 1..Len(data) : data[i] < v}) < r
        /\ Cardinality({i \in 1..Len(data) : data[i] <= v}) >= r

\* statistics.median of a non-empty list, in units of 1/scale
median(data, scale) ==
    LET n == Len(data)
    IN  IF n % 2 = 1 THEN Ranked(data, (n + 1) \div 2) * scale
        ELSE ((Ranked(data, n \div 2) + Ranked(data, n \div 2 + 1)) * scale) \div 2

RECURSIVE Concat(_)
Concat(ss) == IF ss = <<>> THEN <<>> ELSE Head(ss) \o Concat(Tail(ss))

\* lines 734-748; int(bbox[3] - bbox[1]) is the height in whole points
get_line_height(blocks) ==
    LET text_blocks == SelectSeq(blocks, LAMBDA b : b.type \in TextTypes)
        page_line_height_list ==
            Concat([k \in 1..Len(text_blocks) |->
                      [m \in 1..Len(text_blocks[k].lines) |->
                          (text_blocks[k].lines[m].bbox[4]
                             - text_blocks[k].lines[m].bbox[2]) \div Unit]])
    IN  IF Len(page_line_height_list) > 0 THEN median(page_line_height_list, Unit)
        ELSE DefaultLineHeight * Unit

\* lines 647-654
LinesPositions(block_bbox, lines, lh) ==
    [i \in 1..lines |->
        <<block_bbox[1], block_bbox[2] + (i - 1) * lh,
          block_bbox[3], block_bbox[2] + (i - 1) * lh + lh>>]

\* lines 596-654
insert_lines_into_block(block_bbox, lh, page_w, page_h) ==
    LET block_height == block_bbox[4] - block_bbox[2]
        block_width == block_bbox[3] - block_bbox[1]
    IN  IF block_height <= lh * 2 THEN <<block_bbox>>
        ELSE IF /\ 4 * block_height > page_h
                /\ 2 * block_width < page_w
                /\ 4 * block_width > page_w
             THEN LinesPositions(block_bbox, block_height \div lh + 1, lh)
        ELSE IF 10 * block_width > 4 * page_w
             THEN LinesPositions(block_bbox, 3, block_height \div 3)
        ELSE IF 4 * block_width > page_w
             THEN LinesPositions(block_bbox, block_height \div lh + 1, lh)
        ELSE IF 10 * block_height > 12 * block_width THEN <<block_bbox>>
        ELSE LinesPositions(block_bbox, 2, block_height \div 2)

\* lines 660-665: returns the block with its new lines and the line boxes
add_lines_to_block(b, lh, page_w, page_h) ==
    LET line_bboxes == insert_lines_into_block(b.bbox, lh, page_w, page_h)
    IN  [block |-> [b EXCEPT !.lines = [k \in 1..Len(line_bboxes) |-> Line(line_bboxes[k])]],
         boxes |-> line_bboxes]

KeepRealLines(b) == [b EXCEPT !.has_real_lines = TRUE, !.real_lines = b.lines]

\* lines 668-684, for one block
CollectBlock(b, lh, page_w, page_h) ==
    IF b.type \in TextTypes
    THEN IF Len(b.lines) = 0 THEN add_lines_to_block(b, lh, page_w, page_h)
         ELSE IF /\ b.type = Title
                 /\ Len(b.lines) = 1
                 /\ b.bbox[4] - b.bbox[2] > lh * 2
              THEN add_lines_to_block(KeepRealLines(b), lh, page_w, page_h)
         ELSE [block |-> b, boxes |-> [k \in 1..Len(b.lines) |-> b.lines[k].bbox]]
    ELSE IF b.type \in {ImageBody, TableBody, InterlineEquation}
         THEN add_lines_to_block(KeepRealLines(b), lh, page_w, page_h)
    ELSE [block |-> b, boxes |-> <<>>]

\* lines 658-684: the blocks as the loop leaves them, and page_line_list
CollectLines(blocks, lh, page_w, page_h) ==
    LET c == [k \in 1..Len(blocks) |-> CollectBlock(blocks[k], lh, page_w, page_h)]
    IN  [fix_blocks |-> [k \in 1..Len(blocks) |-> c[k].block],
         page_line_list |-> Concat([k \in 1..Len(blocks) |-> c[k].boxes])]

\* the function with the limit its comment names
sort_lines_by_model_Limit512(blocks, page_w, page_h, lh, predict) ==
    LET c == CollectLines(blocks, lh, page_w, page_h)
        n == Len(c.page_line_list)
    IN  IF n > 512
        THEN [fix_blocks |-> c.fix_blocks, page_line_list |-> c.page_line_list,
              prediction |-> NoPrediction, sorted_bboxes |-> None, raised |-> FALSE]
        ELSE [fix_blocks |-> c.fix_blocks, page_line_list |-> c.page_line_list,
              prediction |-> predict,
              sorted_bboxes |->
                  IF predict.raised THEN None
                  ELSE SomeBoxes([i \in 1..n |-> c.page_line_list[predict.orders[i]]]),
              raised |-> predict.raised]

\* lines 657-731.  predict is what the call of the layoutreader model does
\* if it is made: it raises, or it returns orders, a permutation of the
\* positions of the boxes.  Lines 689-724 only scale the boxes for the model.
sort_lines_by_model(blocks, page_w, page_h, lh, predict) ==
    LET c == CollectLines(blocks, lh, page_w, page_h)
        n == Len(c.page_line_list)
    IN  IF n > CapacityLimit
        THEN [fix_blocks |-> c.fix_blocks, page_line_list |-> c.page_line_list,
              prediction |-> NoPrediction, sorted_bboxes |-> None, raised |-> FALSE]
        ELSE [fix_blocks |-> c.fix_blocks, page_line_list |-> c.page_line_list,
              prediction |-> predict,
              sorted_bboxes |->
                  IF predict.raised THEN None
                  ELSE SomeBoxes([i \in 1..n |-> c.page_line_list[predict.orders[i]]]),
              raised |-> predict.raised]

\* list.index(v), counted from 0
IndexOf(s, v) ==
    LET at == {p \in 1..Len(s) : s[p] = v}
    IN  (CHOOSE p \in at : \A q \in at : p <= q) - 1

\* lines 539-544
process_special_block(b) ==
    IF b.type \in {ImageBody, TableBody, Title, InterlineEquation} /\ b.has_real_lines
    THEN [b EXCEPT !.virtual_lines = b.lines, !.lines = b.real_lines,
                   !.has_real_lines = FALSE, !.real_lines = <<>>]
    ELSE b

\* lines 548-560, for one block
IndexByLines(b, boxes) ==
    IF Len(b.lines) = 0
    THEN process_special_block([b EXCEPT !.index = IndexOf(boxes, b.bbox) * IndexUnit])
    ELSE LET lines == [k \in 1..Len(b.lines) |->
                          [b.lines[k] EXCEPT !.index = IndexOf(boxes, b.lines[k].bbox)]]
         IN  process_special_block(
                 [b EXCEPT !.lines = lines,
                           !.index = median([k \in 1..Len(lines) |-> lines[k].index],
                                            IndexUnit)])

\* sorted(blocks, key=lambda b: b['index']), a stable sort
RECURSIVE InsertByIndex(_, _)
InsertByIndex(s, b) ==
    IF s = <<>> THEN <<b>>
    ELSE IF s[Len(s)].index <= b.index THEN Append(s, b)
    ELSE Append(InsertByIndex(SubSeq(s, 1, Len(s) - 1), b), s[Len(s)])

RECURSIVE SortByIndex(_, _)
SortByIndex(s, acc) ==
    IF s = <<>> THEN acc ELSE SortByIndex(Tail(s), InsertByIndex(acc, Head(s)))

\* the lines of the blocks that sorted(fix_blocks, key=index) puts before
\* the k-th block
LinesBefore(blocks, k) ==
    Len(Concat([m \in 1..Len(blocks) |->
                   IF \/ blocks[m].index < blocks[k].index
                      \/ (blocks[m].index = blocks[k].index /\ m < k)
                   THEN blocks[m].lines ELSE <<>>]))

\* lines 567-591.  sorted_boxes is what recursive_xy_cut made of the shuffled
\* block boxes: the block boxes in the order of the cut.
IndexByXycut(blocks, sorted_boxes) ==
    LET clipped == [k \in 1..Len(blocks) |->
                       process_special_block(
                           [blocks[k] EXCEPT !.bbox = [c \in 1..4 |-> Max(0, blocks[k].bbox[c])]])]
        placed == [k \in 1..Len(clipped) |->
                       [clipped[k] EXCEPT !.index = IndexOf(sorted_boxes, clipped[k].bbox) * IndexUnit]]
    IN  [k \in 1..Len(placed) |->
            [placed[k] EXCEPT !.lines =
                [m \in 1..Len(placed[k].lines) |->
                    [placed[k].lines[m] EXCEPT !.index = LinesBefore(placed, k) + m]]]]

\* lines 516-593
cal_block_index(blocks, sorted_lines, sorted_boxes) ==
    IF ~sorted_lines.none
    THEN [fix_blocks |-> [k \in 1..Len(blocks) |-> IndexByLines(blocks[k], sorted_lines.boxes)],
          strategy |-> "layoutreader"]
    ELSE [fix_blocks |-> IndexByXycut(blocks, sorted_boxes), strategy |-> "xycut"]

\* lines 767-779
\* variant: the bbox of the first member, the index of the first member
process_block_list_FirstMember(blocks, body_type, block_type) ==
    [type |-> block_type, bbox |-> blocks[1].bbox, blocks |-> blocks,
     index |-> blocks[1].index]

process_block_list(blocks, body_type, block_type) ==
    LET bodies == SelectSeq(blocks, LAMBDA b : b.type = body_type)
    IN  [type |-> block_type,
         bbox |-> IF Len(bodies) > 0 THEN bodies[1].bbox ELSE NoBox,
         blocks |-> blocks,
         index |-> median([k \in 1..Len(blocks) |-> blocks[k].index], 1)]

Image == "image"
Table == "table"

\* the group ids of the blocks of the given types, in order of first appearance
RECURSIVE GroupIds(_, _, _)
GroupIds(blocks, types, acc) ==
    IF blocks = <<>> THEN acc
    ELSE GroupIds(Tail(blocks), types,
                  IF Head(blocks).type \in types THEN AppendNew(acc, Head(blocks).group_id)
                  ELSE acc)

Groups(blocks, types, body_type, block_type) ==
    LET ids == GroupIds(blocks, types, <<>>)
    IN  [k \in 1..Len(ids) |->
            process_block_list(
                SelectSeq(blocks, LAMBDA b : b.type \in types /\ b.group_id = ids[k]),
                body_type, block_type)]

\* variant: footnotes are neither passed through nor grouped
revert_group_blocks_NoFootnotes(blocks) ==
    SelectSeq(blocks, LAMBDA b : b.type \notin GroupTypes)
        \o Groups(blocks, {ImageBody, ImageCaption}, ImageBody, Image)
        \o Groups(blocks, {TableBody, TableCaption}, TableBody, Table)

\* lines 782-808
revert_group_blocks(blocks) ==
    SelectSeq(blocks, LAMBDA b : b.type \notin GroupTypes)
        \o Groups(blocks, {ImageBody, ImageCaption, ImageFootnote}, ImageBody, Image)
        \o Groups(blocks, {TableBody, TableCaption, TableFootnote}, TableBody, Table)

\* lines 1046-1052
SortPage(blocks) ==
    LET sorted == SortByIndex(revert_group_blocks(blocks), <<>>)
    IN  [k \in 1..Len(sorted) |->
            IF sorted[k].type \in {Image, Table}
            THEN [sorted[k] EXCEPT !.blocks = SortByIndex(sorted[k].blocks, <<>>)]
            ELSE sorted[k]]

-----------------------------------------------------------------------------
(* The reading-order steps of parse_page_core as a state machine: lines     *)
(* 1040-1061.  The page has at least one block (line 1018 returns the       *)
(* empty page before).                                                      *)

MaxOrderBlocks == 3

Pt(b) == [c \in 1..4 |-> b[c] * Unit]

\* page_w, page_h
OrderPageSize == <<600 * Unit, 800 * Unit>>

\* The blocks a page may carry, in points.  With the line height 2 of the
\* small text line, the image column gets 400 virtual lines and the table
\* 199, so that the three together collect 600 line boxes, the text line and
\* the table exactly 200, and the text line and the image 401.  The title's
\* line of height 49 makes the medians 25.5 and the thirds 49/3.  The empty
\* text block is narrow and gets two virtual lines.
OrderBlockUniverse ==
    { FixBlock(Text, Pt(<<300, 0, 400, 2>>), NoGroup, <<Line(Pt(<<300, 0, 400, 2>>))>>),
      FixBlock(Text, Pt(<<300, 10, 590, 40>>), NoGroup,
               <<Line(Pt(<<300, 10, 590, 20>>)), Line(Pt(<<300, 20, 590, 30>>)),
                 Line(Pt(<<300, 30, 590, 40>>))>>),
      FixBlock(Title, Pt(<<300, 50, 590, 99>>), NoGroup, <<Line(Pt(<<300, 50, 590, 99>>))>>),
      FixBlock(Text, Pt(<<300, 500, 400, 560>>), NoGroup, <<>>),
      FixBlock(ImageBody, Pt(<<0, 2, 250, 800>>), 0, <<>>),
      FixBlock(TableBody, Pt(<<300, 100, 550, 496>>), 0, <<>>) }

\* orders the model may return for n boxes: as they came, reversed, rotated,
\* and with the last two exchanged
Orders(n) ==
    { [i \in 1..n |-> i], [i \in 1..n |-> n + 1 - i], [i \in 1..n |-> (i % n) + 1],
      [i \in 1..n |-> IF n > 1 /\ i = n - 1 THEN n ELSE IF n > 1 /\ i = n THEN n - 1 ELSE i] }

\* what the call of the layoutreader model may do
Predictions(n) ==
    {[made |-> TRUE, raised |-> TRUE, orders |-> <<>>]}
        \cup {[made |-> TRUE, raised |-> FALSE, orders |-> o] : o \in Orders(n)}

\* ---- recursive_xy_cut (reading_oreder/layoutreader/xycut.py), after the
\* specification: split the box set along the axis with the widest clean gap
\* between the projected intervals, recurse until singleton groups remain,
\* concatenate.  Where the widest gap is not unique, and where a group has no
\* clean gap, every outcome is possible.

Lo(b, axis) == IF axis = "x" THEN b[1] ELSE b[2]

Hi(b, axis) == IF axis = "x" THEN b[3] ELSE b[4]

\* the boxes of the group I that end at or before the end of box c.at
LowSide(boxes, I, c) == {j \in I : Hi(boxes[j], c.axis) <= Hi(boxes[c.at], c.axis)}

\* the width of the gap after box c.at, between the two sides
GapWidth(boxes, I, c) ==
    LET high == I \ LowSide(boxes, I, c)
        first == CHOOSE j \in high : \A k \in high : Lo(boxes[j], c.axis) <= Lo(boxes[k], c.axis)
    IN  Lo(boxes[first], c.axis) - Hi(boxes[c.at], c.axis)

\* the cuts of the group I that no projected interval crosses
CleanCuts(boxes, I) ==
    {c \in [axis : {"x", "y"}, at : I] :
        /\ I \ LowSide(boxes, I, c) # {}
        /\ GapWidth(boxes, I, c) > 0}

WidestCuts(boxes, I) ==
    {c \in CleanCuts(boxes, I) :
        \A d \in CleanCuts(boxes, I) : GapWidth(boxes, I, d) <= GapWidth(boxes, I, c)}

\* the lists that hold every element of I once
ListsOf(I) ==
    {q \in [1..Cardinality(I) -> I] : \A i, j \in 1..Cardinality(I) : i # j => q[i] # q[j]}

\* the orders the cut may give to the positions I of boxes
RECURSIVE XyCut(_, _)
XyCut(boxes, I) ==
    IF Cardinality(I) <= 1 \/ CleanCuts(boxes, I) = {} THEN ListsOf(I)
    ELSE UNION {{l \o h : l \in XyCut(boxes, LowSide(boxes, I, c)),
                          h \in XyCut(boxes, I \ LowSide(boxes, I, c))} :
                c \in WidestCuts(boxes, I)}

\* the lists res that recursive_xy_cut may fill for the boxes
recursive_xy_cut(boxes) == XyCut(boxes, 1..Len(boxes))

\* lines 567-581: the orders recursive_xy_cut may give to the boxes of the blocks
XyOrders(blocks) ==
    LET n == Len(blocks)
        block_bboxes == [k \in 1..n |-> [c \in 1..4 |-> Max(0, blocks[k].bbox[c])]]
    IN  {[i \in 1..n |-> block_bboxes[res[i]]] : res \in recursive_xy_cut(block_bboxes)}

InitOrder ==
    /\ part = "order"
    /\ opc = "start"
    /\ fix_blocks \in DistinctSeqs(OrderBlockUniverse, MaxOrderBlocks)
    /\ Len(fix_blocks) > 0
    /\ line_height = 0 /\ page_line_list = <<>>
    /\ prediction = NoPrediction /\ model_calls = 0
    /\ sorted_bboxes = None /\ strategy = "none"
    /\ sorted_blocks = <<>> /\ page_result = "pending"
    /\ BlocksIdle
    /\ SpansIdle
    /\ DocIdle
    /\ TextIdle
    /\ CallIdle
    /\ SingletonIdle

\* line 1040
GetLineHeight ==
    /\ part = "order" /\ opc = "start"
    /\ line_height' = get_line_height(fix_blocks)
    /\ opc' = "measured"
    /\ UNCHANGED <<part, fix_blocks, page_line_list, prediction, model_calls,
                   sorted_bboxes, strategy, sorted_blocks, page_result, notOrderVars>>

\* lines 1041-1042.  An exception of the model call is caught nowhere: it
\* leaves sort_lines_by_model, parse_page_core and pdf_parse_union.
SortLinesByModel ==
    /\ part = "order" /\ opc = "measured"
    /\ \E predict \in Predictions(Len(CollectLines(fix_blocks, line_height, OrderPageSize[1],
                                                   OrderPageSize[2]).page_line_list)) :
          LET r == sort_lines_by_model(fix_blocks, OrderPageSize[1], OrderPageSize[2],
                                       line_height, predict)
          IN  /\ fix_blocks' = r.fix_blocks
              /\ page_line_list' = r.page_line_list
              /\ prediction' = r.prediction
              /\ model_calls' = model_calls + (IF r.prediction.made THEN 1 ELSE 0)
              /\ sorted_bboxes' = r.sorted_bboxes
              /\ opc' = IF r.raised THEN "raised" ELSE "sorted"
              /\ page_result' = IF r.raised THEN "exception" ELSE page_result
    /\ UNCHANGED <<part, line_height, strategy, sorted_blocks, notOrderVars>>

\* line 1043
CalBlockIndex ==
    /\ part = "order" /\ opc = "sorted"
    /\ \E sorted_boxes \in XyOrders(fix_blocks) :
          LET r == cal_block_index(fix_blocks, sorted_bboxes, sorted_boxes)
          IN  /\ fix_blocks' = r.fix_blocks
              /\ strategy' = r.strategy
    /\ opc' = "indexed"
    /\ UNCHANGED <<part, line_height, page_line_list, prediction, model_calls,
                   sorted_bboxes, sorted_blocks, page_result, notOrderVars>>

\* lines 1045-1061
ReturnPage ==
    /\ part = "order" /\ opc = "indexed"
    /\ sorted_blocks' = SortPage(fix_blocks)
    /\ page_result' = "page_info"
    /\ opc' = "done"
    /\ UNCHANGED <<part, fix_blocks, line_height, page_line_list, prediction,
                   model_calls, sorted_bboxes, strategy, notOrderVars>>

NextOrder ==
    \/ GetLineHeight
    \/ SortLinesByModel
    \/ CalBlockIndex
    \/ ReturnPage

SpecOrder == InitOrder /\ [][NextOrder]_vars

-----------------------------------------------------------------------------
(* The xy-cut branch of cal_block_index on grids of blocks: the blocks of   *)
(* the page are drawn in any order, the action is the call                  *)
(* cal_block_index(fix_blocks, None).                                       *)

MaxGridBlocks == 4

GridBlock(b) == FixBlock(Text, Pt(b), NoGroup, <<Line(Pt(b))>>)

\* two rows and two columns of blocks, 10 apart in rows and 100 in columns
GutterGrid ==
    { GridBlock(<<0, 0, 250, 390>>), GridBlock(<<350, 0, 600, 390>>),
      GridBlock(<<0, 400, 250, 790>>), GridBlock(<<350, 400, 600, 790>>) }

\* two rows and two columns of blocks, 100 apart in rows and 10 in columns
RowGrid ==
    { GridBlock(<<0, 0, 295, 300>>), GridBlock(<<305, 0, 600, 300>>),
      GridBlock(<<0, 400, 295, 700>>), GridBlock(<<305, 400, 600, 700>>) }

InitGrid ==
    /\ part = "grid"
    /\ opc = "sorted"
    /\ \E grid \in {GutterGrid, RowGrid} :
          fix_blocks \in DistinctSeqs(grid, MaxGridBlocks)
    /\ Len(fix_blocks) > 0
    /\ line_height = 0 /\ page_line_list = <<>>
    /\ prediction = NoPrediction /\ model_calls = 0
    /\ sorted_bboxes = None /\ strategy = "none"
    /\ sorted_blocks = <<>> /\ page_result = "pending"
    /\ BlocksIdle
    /\ SpansIdle
    /\ DocIdle
    /\ TextIdle
    /\ CallIdle
    /\ SingletonIdle

\* cal_block_index(fix_blocks, None)
XyCutIndex ==
    /\ part = "grid" /\ opc = "sorted"
    /\ \E sorted_boxes \in XyOrders(fix_blocks) :
          LET r == cal_block_index(fix_blocks, None, sorted_boxes)
          IN  /\ fix_blocks' = r.fix_blocks
              /\ strategy' = r.strategy
    /\ opc' = "indexed"
    /\ UNCHANGED <<part, line_height, page_line_list, prediction, model_calls,
                   sorted_bboxes, sorted_blocks, page_result, notOrderVars>>

NextGrid == XyCutIndex

SpecGrid == InitGrid /\ [][NextGrid]_vars

-----------------------------------------------------------------------------
(* The parts together *)

-----------------------------------------------------------------------------
(* Regrouping alone (lines 1045-1052): the page arrives with the indices    *)
(* cal_block_index gave, and the fragments of a group may be any of body,   *)
(* caption and footnote: Block Synthesis drops blocks by geometry, so a     *)
(* caption can arrive without its body.                                     *)

MaxFragments == 4

Indexed(type, bbox, gid, i) == [FixBlock(type, Pt(bbox), gid, <<>>) EXCEPT !.index = i]

\* indices are in quarters, as cal_block_index leaves them
FragmentUniverse ==
    { Indexed(ImageBody,     <<0, 0, 250, 300>>,     0, 2 * IndexUnit),
      Indexed(ImageCaption,  <<0, 300, 250, 320>>,   0, 3 * IndexUnit),
      Indexed(ImageFootnote, <<0, 320, 250, 340>>,   0, 1 * IndexUnit),
      Indexed(ImageCaption,  <<0, 400, 250, 420>>,   1, 6 * IndexUnit),
      Indexed(ImageBody,     <<0, 420, 250, 600>>,   1, 7 * IndexUnit),
      Indexed(TableBody,     <<300, 0, 550, 300>>,   0, 5 * IndexUnit),
      Indexed(TableCaption,  <<300, 300, 550, 320>>, 0, 0),
      Indexed(Text,          <<300, 400, 550, 500>>, NoGroup, 4 * IndexUnit) }

InitGroup ==
    /\ part = "group"
    /\ opc = "indexed"
    /\ fix_blocks \in DistinctSeqs(FragmentUniverse, MaxFragments)
    /\ Len(fix_blocks) > 0
    /\ line_height = 0 /\ page_line_list = <<>>
    /\ prediction = NoPrediction /\ model_calls = 0
    /\ sorted_bboxes = None /\ strategy = "none"
    /\ sorted_blocks = <<>> /\ page_result = "pending"
    /\ BlocksIdle
    /\ SpansIdle
    /\ DocIdle
    /\ TextIdle
    /\ CallIdle
    /\ SingletonIdle

\* lines 1045-1052
RegroupPage ==
    /\ part = "group" /\ opc = "indexed"
    /\ sorted_blocks' = SortPage(fix_blocks)
    /\ page_result' = "page_info"
    /\ opc' = "done"
    /\ UNCHANGED <<part, fix_blocks, line_height, page_line_list, prediction,
                   model_calls, sorted_bboxes, strategy, notOrderVars>>

NextGroup == RegroupPage

SpecGroup == InitGroup /\ [][NextGroup]_vars

-----------------------------------------------------------------------------
(* Document parsing: the page loop of pdf_parse_union (lines 1099-1171)     *)
(* with parse_page_core (lines 854-1061), and the page loop of              *)
(* UnionParser.parse_document with UnionParser.parse_page                   *)
(* (pdf_parser/union_parser.py).  A page is the list of blocks Block        *)
(* Synthesis keeps for it; neither loop has a try/except, so an exception   *)
(* of the page parser reaches the caller of the document parser.            *)

MaxPages == 2

TXT == "txt"
OCR == "ocr"
ParseModes == {TXT, OCR, "auto"}

PageBlock(type, bbox, line_spans) ==
    [type |-> type, bbox |-> bbox, lines |-> <<[bbox |-> bbox, spans |-> line_spans]>>]

PageWidth == 600

TitleLeft == PageBlock(Title, <<0, 0, 100, 20>>, <<"A">>)
TitleRight == PageBlock(Title, <<110, 0, 200, 20>>, <<"B">>)
TitleBelow == PageBlock(Title, <<0, 100, 100, 140>>, <<"C">>)
TextBelow == PageBlock(Text, <<0, 200, 500, 300>>, <<"D">>)

PageUniverse ==
    { <<>>,
      <<TextBelow>>,
      <<TitleLeft, TitleRight>>,
      <<TitleRight, TitleLeft, TextBelow>>,
      <<TitleLeft, TitleBelow>> }

\* boxbase.py lines 232-253, with the threshold as the pair <<n, d>>
is_overlaps_y_exceeds_threshold(bbox1, bbox2, n, d) ==
    LET overlap == Max(0, Min(bbox1[4], bbox2[4]) - Max(bbox1[2], bbox2[2]))
        min_height == Min(bbox1[4] - bbox1[2], bbox2[4] - bbox2[2])
    IN  overlap * d > n * min_height

\* the conditions of lines 933-938 and 962-966 for a left and a right title
TitlesOfOneRow(left, right, page_w) ==
    LET left_height == left.bbox[4] - left.bbox[2]
        right_height == right.bbox[4] - right.bbox[2]
    IN  /\ left.type = Title /\ right.type = Title
        /\ left.bbox[1] <= right.bbox[1]
        /\ is_overlaps_y_exceeds_threshold(left.bbox, right.bbox, 9, 10)
        /\ Len(left.lines) = 1 /\ Len(right.lines) = 1
        /\ (right.bbox[1] - left.bbox[3]) * 10 < page_w
        /\ left_height * 95 < right_height * 100
        /\ right_height * 100 < left_height * 105

\* ocr_construct_page_component_v2 as the callers use it: the blocks, the
\* page index, need_drop and drop_reason
PageInfo(blocks, idx, need_drop, drop_reason) ==
    [preproc_blocks |-> blocks, page_idx |-> idx, need_drop |-> need_drop,
     drop_reason |-> drop_reason]

\* the names parse_page_core can read when line 928 runs: its parameters,
\* the locals assigned in lines 870-924, and the names of the module
\* (imports of lines 1-46 and the functions defined at its top level)
NamesAtLine928 ==
    { "page_doc", "magic_model", "page_id", "pdf_bytes_md5", "imageWriter", "parse_mode",
      "lang", "need_drop", "drop_reason", "page_w", "page_h", "img_groups", "table_groups",
      "discarded_blocks", "text_blocks", "title_blocks", "inline_equations",
      "interline_equations", "interline_equation_blocks", "img_body_blocks",
      "img_caption_blocks", "img_footnote_blocks", "table_body_blocks",
      "table_caption_blocks", "table_footnote_blocks", "merge_title_blocks",
      "merge_two_bbox", "merge_two_blocks", "BlockType", "y_overlapping_blocks",
      "__is_overlaps_y_exceeds_threshold" }

InitDoc ==
    /\ part = "doc"
    /\ dpc = "loop"
    /\ parser \in {"core", "union"}
    /\ parse_mode \in ParseModes
    /\ dataset \in UNION {[1..n -> PageUniverse] : n \in 0..MaxPages}
    /\ start_page_id \in 0..1
    /\ page_id = IF parser = "union" THEN start_page_id ELSE 0
    /\ pdf_info_dict = <<>>
    /\ exception = "none"
    /\ BlocksIdle
    /\ SpansIdle
    /\ OrderIdle
    /\ TextIdle
    /\ CallIdle
    /\ SingletonIdle

\* pdf_parse_union lines 1136-1151, the branch of a page before start_page_id
CoreSkipPage ==
    /\ part = "doc" /\ dpc = "loop" /\ parser = "core"
    /\ page_id < Len(dataset) /\ page_id < start_page_id
    /\ pdf_info_dict' = Append(pdf_info_dict, PageInfo(<<>>, page_id, TRUE, "skip page"))
    /\ page_id' = page_id + 1
    /\ UNCHANGED <<part, dpc, parser, parse_mode, dataset, start_page_id, exception,
                   notDocVars>>

\* pdf_parse_union lines 1136-1146 and parse_page_core lines 870-891
CoreStartPage ==
    /\ part = "doc" /\ dpc = "loop" /\ parser = "core"
    /\ page_id < Len(dataset) /\ start_page_id <= page_id
    /\ dpc' = "core_groups_done"
    /\ UNCHANGED <<part, parser, parse_mode, dataset, start_page_id, page_id,
                   pdf_info_dict, exception, notDocVars>>

\* parse_page_core lines 926-928: the name blocks is read and is not bound
CoreClusterTitles ==
    /\ part = "doc" /\ dpc = "core_groups_done"
    /\ "blocks" \notin NamesAtLine928
    /\ exception' = "NameError"
    /\ dpc' = "raised"
    /\ UNCHANGED <<part, parser, parse_mode, dataset, start_page_id, page_id,
                   pdf_info_dict, notDocVars>>

\* variant: a parse mode that is neither txt nor ocr is taken as ocr
UnionProcessSpans_DefaultsToOcr ==
    /\ part = "doc" /\ dpc = "loop" /\ parser = "union"
    /\ page_id < Len(dataset)
    /\ dpc' = "union_spans_done"
    /\ UNCHANGED <<part, parser, parse_mode, dataset, start_page_id, page_id,
                   pdf_info_dict, exception, notDocVars>>

\* parse_document lines 146-152, parse_page lines 62-94 and _process_spans
\* lines 198-226
UnionProcessSpans ==
    /\ part = "doc" /\ dpc = "loop" /\ parser = "union"
    /\ page_id < Len(dataset)
    /\ IF parse_mode \in {TXT, OCR}
       THEN /\ dpc' = "union_spans_done"
            /\ UNCHANGED exception
       ELSE /\ dpc' = "raised"
            /\ exception' = "Exception: parse_mode must be txt or ocr"
    /\ UNCHANGED <<part, parser, parse_mode, dataset, start_page_id, page_id,
                   pdf_info_dict, notDocVars>>

\* parse_page lines 96-108 and parse_document line 153
UnionEmptyPage ==
    /\ part = "doc" /\ dpc = "union_spans_done"
    /\ Len(dataset[page_id + 1]) = 0
    /\ pdf_info_dict' = Append(pdf_info_dict, PageInfo(<<>>, page_id, TRUE, "empty page"))
    /\ page_id' = page_id + 1
    /\ dpc' = "loop"
    /\ UNCHANGED <<part, parser, parse_mode, dataset, start_page_id, exception,
                   notDocVars>>

\* parse_page lines 110-127 and parse_document line 153
UnionReturnPage ==
    /\ part = "doc" /\ dpc = "union_spans_done"
    /\ Len(dataset[page_id + 1]) # 0
    /\ pdf_info_dict' = Append(pdf_info_dict,
                               PageInfo(dataset[page_id + 1], page_id, FALSE, <<>>))
    /\ page_id' = page_id + 1
    /\ dpc' = "loop"
    /\ UNCHANGED <<part, parser, parse_mode, dataset, start_page_id, exception,
                   notDocVars>>

\* the loop is over: pdf_parse_union lines 1153-1169, parse_document lines 155-169
FinishDocument ==
    /\ part = "doc" /\ dpc = "loop"
    /\ page_id >= Len(dataset)
    /\ dpc' = "document_done"
    /\ UNCHANGED <<part, parser, parse_mode, dataset, start_page_id, page_id,
                   pdf_info_dict, exception, notDocVars>>

NextDoc ==
    \/ CoreSkipPage
    \/ CoreStartPage
    \/ CoreClusterTitles
    \/ UnionProcessSpans
    \/ UnionEmptyPage
    \/ UnionReturnPage
    \/ FinishDocument

SpecDoc == InitDoc /\ [][NextDoc]_vars

-----------------------------------------------------------------------------
(* Span Content Reconstruction: chars_to_content, fill_char_in_spans and    *)
(* the OCR fallback of txt_spans_extract_v2 (pdf_parse_union_core_v2.py     *)
(* lines 126-224 and 338-458).  A span is a Python dict: has_chars and      *)
(* has_content say whether it holds the keys 'chars' and 'content'.  A      *)
(* content string is the sequence of its characters.  The spans of the      *)
(* model are horizontal Text spans lying in a kept block, the ones lines    *)
(* 372-424 hand to fill_char_in_spans.                                      *)

Glyph(bbox, c) == [bbox |-> bbox, c |-> c]

\* the characters lines 119-122 and 107 replace
LigatureFi == "U+FB01"
ReplacementChar == "U+FFFD"

TxtSpan(bbox) ==
    [bbox |-> bbox, type |-> SpanText, score |-> 100, content |-> <<>>,
     has_content |-> FALSE, chars |-> <<>>, has_chars |-> FALSE]

\* ocr_span_list_modify.py lines 47-62
check_chars_is_overlap_in_span(chars) ==
    \E i, j \in 1..Len(chars) :
        i < j /\ RatioGt(calculate_iou(chars[i].bbox, chars[j].bbox), 35, 100)

\* twice the x coordinate of the centre of a glyph
CenterX2(g) == g.bbox[1] + g.bbox[3]

RECURSIVE InsertByCenter(_, _)
InsertByCenter(s, g) ==
    IF s = <<>> THEN <<g>>
    ELSE IF CenterX2(s[Len(s)]) <= CenterX2(g) THEN Append(s, g)
    ELSE Append(InsertByCenter(SubSeq(s, 1, Len(s) - 1), g), s[Len(s)])

\* sorted(span['chars'], key = centre x): stable
RECURSIVE SortByCenter(_, _)
SortByCenter(s, acc) ==
    IF s = <<>> THEN acc ELSE SortByCenter(Tail(s), InsertByCenter(acc, Head(s)))

RECURSIVE SumWidths(_)
SumWidths(chars) ==
    IF chars = <<>> THEN 0
    ELSE Head(chars).bbox[3] - Head(chars).bbox[1] + SumWidths(Tail(chars))

\* lines 172-182: a space is put between two glyphs more than a quarter of
\* the average glyph width apart, unless one of them is a space
RECURSIVE JoinChars(_, _, _)
JoinChars(chars, i, widths) ==
    IF i > Len(chars) THEN <<>>
    ELSE <<chars[i].c>>
         \o (IF /\ i < Len(chars)
                /\ (chars[i + 1].bbox[1] - chars[i].bbox[3]) * 4 * Len(chars) > widths
                /\ chars[i].c # " " /\ chars[i + 1].c # " "
             THEN <<" ">> ELSE <<>>)
         \o JoinChars(chars, i + 1, widths)

\* lines 111-123
RECURSIVE replace_ligatures(_)
replace_ligatures(text) ==
    IF text = <<>> THEN <<>>
    ELSE (IF Head(text) = LigatureFi THEN <<"f", "i">> ELSE <<Head(text)>>)
         \o replace_ligatures(Tail(text))

\* lines 97-107
replace_0xfffd(text_str) ==
    [k \in 1..Len(text_str) |->
        IF text_str[k] = ReplacementChar THEN " " ELSE text_str[k]]

\* lines 126-192
chars_to_content(span) ==
    IF ~span.has_chars THEN span
    ELSE IF Len(span.chars) = 0
         THEN [span EXCEPT !.content = <<>>, !.has_content = TRUE]
    ELSE IF check_chars_is_overlap_in_span(span.chars)
         THEN [span EXCEPT !.content = <<>>, !.has_content = TRUE]
    ELSE LET sorted == SortByCenter(span.chars, <<>>)
             content == JoinChars(sorted, 1, SumWidths(sorted))
         IN  [span EXCEPT !.content = replace_0xfffd(replace_ligatures(content)),
                          !.has_content = TRUE,
                          !.chars = <<>>, !.has_chars = FALSE]

\* the members of LINE_STOP_FLAG and LINE_START_FLAG (lines 195-197) that
\* are plain characters
LINE_STOP_FLAG == {".", "!", "?", ")", "\"", ":", ";", "]", "}", ">", ",", "-"}
LINE_START_FLAG == {"(", "\"", "{", "<", "["}

Abs(x) == IF x < 0 THEN 0 - x ELSE x

\* lines 229-266, the centres doubled and 0.33 as 33/100
calculate_char_in_span(char_bbox, span_bbox, char) ==
    LET char_center_x == char_bbox[1] + char_bbox[3]
        char_center_y == char_bbox[2] + char_bbox[4]
        span_center_y == span_bbox[2] + span_bbox[4]
        span_height == span_bbox[4] - span_bbox[2]
        inside_y == /\ 2 * span_bbox[2] < char_center_y
                    /\ char_center_y < 2 * span_bbox[4]
                    /\ Abs(char_center_y - span_center_y) * 100 < span_height * 2 * 33
    IN  IF /\ 2 * span_bbox[1] < char_center_x /\ char_center_x < 2 * span_bbox[3]
           /\ inside_y
        THEN TRUE
        ELSE IF char \in LINE_STOP_FLAG
        THEN /\ span_bbox[3] - span_height < char_bbox[1] /\ char_bbox[1] < span_bbox[3]
             /\ char_center_x > 2 * span_bbox[1]
             /\ inside_y
        ELSE IF char \in LINE_START_FLAG
        THEN /\ span_bbox[1] < char_bbox[3] /\ char_bbox[3] < span_bbox[1] + span_height
             /\ char_center_x < 2 * span_bbox[3]
             /\ inside_y
        ELSE FALSE

RECURSIVE InsertByTop(_, _)
InsertByTop(s, sp) ==
    IF s = <<>> THEN <<sp>>
    ELSE IF s[Len(s)].bbox[2] <= sp.bbox[2] THEN Append(s, sp)
    ELSE Append(InsertByTop(SubSeq(s, 1, Len(s) - 1), sp), s[Len(s)])

RECURSIVE SortByTop(_, _)
SortByTop(s, acc) ==
    IF s = <<>> THEN acc ELSE SortByTop(Tail(s), InsertByTop(acc, Head(s)))

\* lines 210-214: each glyph goes to the first span it lies in
RECURSIVE AssignChars(_, _)
AssignChars(sps, chars) ==
    IF chars = <<>> THEN sps
    ELSE LET c == Head(chars)
             in == {k \in 1..Len(sps) : calculate_char_in_span(c.bbox, sps[k].bbox, c.c)}
         IN  AssignChars(IF in = {} THEN sps
                         ELSE LET k == CHOOSE k \in in : \A m \in in : k <= m
                              IN  [sps EXCEPT ![k].chars = Append(@, c)],
                         Tail(chars))

\* lines 200-224: the spans in the order of line 203 with their content, and
\* the spans whose content is short for their width
fill_char_in_spans(sps, all_chars) ==
    LET filled == AssignChars(SortByTop(sps, <<>>), all_chars)
        done == [k \in 1..Len(filled) |-> chars_to_content(filled[k])]
    IN  [spans |-> done,
         need_ocr_spans |->
            SelectSeq(done, LAMBDA sp :
                2 * Len(sp.content) * (sp.bbox[4] - sp.bbox[2]) < sp.bbox[3] - sp.bbox[1])]

MaxTxtSpans == 2
MaxChars == 2

TxtSpanUniverse == {TxtSpan(<<0, 0, 100, 10>>), TxtSpan(<<0, 20, 20, 30>>)}

GlyphUniverse ==
    { Glyph(<<0, 0, 8, 10>>, "a"),
      Glyph(<<10, 0, 18, 10>>, "b"),
      Glyph(<<9, 0, 17, 10>>, "c"),
      Glyph(<<30, 0, 38, 10>>, LigatureFi),
      Glyph(<<98, 0, 104, 10>>, "."),
      Glyph(<<2, 20, 18, 30>>, "x"),
      Glyph(<<3, 20, 19, 30>>, ReplacementChar) }

\* calculate_contrast rounds to hundredths: the values around the limit 0.20
Contrasts == {20, 21}

\* what ocr_model.ocr(span_img, det=False) may return: nothing, a list with
\* an empty result, or one pair of text and score (in hundredths)
OcrResults ==
    { <<>>, << <<>> >>,
      << << [text |-> <<"o", "k">>, score |-> 90] >> >>,
      << << [text |-> <<"o", "k">>, score |-> 50] >> >>,
      << << [text |-> <<>>, score |-> 90] >> >> }

InitText ==
    /\ part = "text"
    /\ tpc = "start"
    /\ txt_spans \in DistinctSeqs(TxtSpanUniverse, MaxTxtSpans)
    /\ all_pymu_chars \in DistinctSeqs(GlyphUniverse, MaxChars)
    /\ need_ocr_spans = <<>>
    /\ ocr_calls = <<>>
    /\ BlocksIdle
    /\ SpansIdle
    /\ OrderIdle
    /\ DocIdle
    /\ CallIdle
    /\ SingletonIdle

\* lines 338-424: without text spans the list is returned at once (line 372);
\* otherwise each span gets an empty glyph list and fill_char_in_spans runs.
\* The dicts of new_spans are the dicts of spans, so spans sees the changes.
FillChars ==
    /\ part = "text" /\ tpc = "start"
    /\ IF txt_spans = <<>>
       THEN /\ tpc' = "returned"
            /\ UNCHANGED <<txt_spans, need_ocr_spans>>
       ELSE LET new_spans == [k \in 1..Len(txt_spans) |->
                                 [txt_spans[k] EXCEPT !.chars = <<>>, !.has_chars = TRUE]]
                r == fill_char_in_spans(new_spans, all_pymu_chars)
            IN  /\ txt_spans' = [k \in 1..Len(txt_spans) |->
                                    CHOOSE sp \in Range(r.spans) : sp.bbox = txt_spans[k].bbox]
                /\ need_ocr_spans' = r.need_ocr_spans
                /\ tpc' = "filled"
    /\ UNCHANGED <<part, all_pymu_chars, ocr_calls, notTextVars>>

\* lines 437-456, one turn of the loop over need_ocr_spans
OcrSpan ==
    /\ part = "text" /\ tpc = "filled"
    /\ need_ocr_spans # <<>>
    /\ LET span == Head(need_ocr_spans)
       IN  \E contrast \in Contrasts : \E res \in OcrResults :
             LET ocr_res == IF contrast <= 20 THEN <<>> ELSE res
             IN  /\ ocr_calls' = Append(ocr_calls,
                        [bbox |-> span.bbox, contrast |-> contrast, ocr_res |-> ocr_res])
                 /\ txt_spans' =
                        IF contrast <= 20 THEN ListRemove(txt_spans, span)
                        ELSE IF Len(ocr_res) > 0 /\ Len(ocr_res[1]) > 0
                        THEN LET ocr_text == ocr_res[1][1].text
                                 ocr_score == ocr_res[1][1].score
                             IN  IF ocr_score > 50 /\ Len(ocr_text) > 0
                                 THEN [txt_spans EXCEPT
                                          ![FirstPos(txt_spans, span)] =
                                              [@ EXCEPT !.content = ocr_text,
                                                        !.score = ocr_score]]
                                 ELSE ListRemove(txt_spans, span)
                        ELSE txt_spans
    /\ need_ocr_spans' = Tail(need_ocr_spans)
    /\ UNCHANGED <<part, tpc, all_pymu_chars, notTextVars>>

\* line 458
ReturnSpans ==
    /\ part = "text" /\ tpc = "filled"
    /\ need_ocr_spans = <<>>
    /\ tpc' = "returned"
    /\ UNCHANGED <<part, txt_spans, all_pymu_chars, need_ocr_spans, ocr_calls,
                   notTextVars>>

NextText ==
    \/ FillChars
    \/ OcrSpan
    \/ ReturnSpans

SpecText == InitText /\ [][NextText]_vars

-----------------------------------------------------------------------------
(* The relations of libs/boxbase.py on pairs of boxes with x0 <= x1 and     *)
(* y0 <= y1.                                                                *)

MaxCoord == 2

Boxes ==
    {b \in (0..MaxCoord) \X (0..MaxCoord) \X (0..MaxCoord) \X (0..MaxCoord) :
        b[1] <= b[3] /\ b[2] <= b[4]}

\* boxbase.py lines 4-23
is_in_or_part_overlap(box1, box2) ==
    ~ \/ box1[3] < box2[1]
      \/ box1[1] > box2[3]
      \/ box1[4] < box2[2]
      \/ box1[2] > box2[4]

\* variant: only the x range is compared
is_in_XOnly(box1, box2) ==
    box1[1] >= box2[1] /\ box1[3] <= box2[3]

\* boxbase.py lines 61-77
is_in(box1, box2) ==
    /\ box1[1] >= box2[1]
    /\ box1[2] >= box2[2]
    /\ box1[3] <= box2[3]
    /\ box1[4] <= box2[4]

\* boxbase.py lines 510-529
bbox_relative_pos(bbox1, bbox2) ==
    [left |-> bbox2[3] < bbox1[1],
     right |-> bbox1[3] < bbox2[1],
     bottom |-> bbox2[4] < bbox1[2],
     top |-> bbox1[4] < bbox2[2]]

InitGeometry ==
    /\ part = "geometry"
    /\ cpc = "call"
    /\ args \in Boxes \X Boxes
    /\ ret = <<>>
    /\ BlocksIdle
    /\ SpansIdle
    /\ OrderIdle
    /\ DocIdle
    /\ TextIdle
    /\ SingletonIdle

ApplyBoxbase ==
    /\ part = "geometry" /\ cpc = "call"
    /\ ret' = [iou_ab |-> calculate_iou(args[1], args[2]),
               iou_ba |-> calculate_iou(args[2], args[1]),
               iou_aa |-> calculate_iou(args[1], args[1]),
               in_ab |-> is_in(args[1], args[2]),
               in_ba |-> is_in(args[2], args[1]),
               overlap_ab |-> is_in_or_part_overlap(args[1], args[2]),
               pos_ab |-> bbox_relative_pos(args[1], args[2])]
    /\ cpc' = "returned"
    /\ UNCHANGED <<part, args, notCallVars>>

NextGeometry == ApplyBoxbase

SpecGeometry == InitGeometry /\ [][NextGeometry]_vars

-----------------------------------------------------------------------------
(* insert_lines_into_block of pdf_parse_union_core_v2.py on single blocks   *)
(* of a 600 x 800 page: widths on both sides of 25%, 40% and 50% of the     *)
(* page width, heights in steps of five points up to over a quarter of the  *)
(* page height, three line heights.  Lengths are in sixths of a point.      *)

MaxHeightSteps == 48

BlockWidths == {100, 150, 200, 250, 300, 400}

LineHeights == {7, 10, 12}

InitLines ==
    /\ part = "lines"
    /\ cpc = "call"
    /\ \E w \in BlockWidths, k \in 1..MaxHeightSteps, y0 \in {0, 100}, lh \in LineHeights :
          args = [block_bbox |-> <<0, y0 * Unit, w * Unit, (y0 + 5 * k) * Unit>>,
                  line_height |-> lh * Unit]
    /\ ret = <<>>
    /\ BlocksIdle
    /\ SpansIdle
    /\ OrderIdle
    /\ DocIdle
    /\ TextIdle
    /\ SingletonIdle

InsertLines ==
    /\ part = "lines" /\ cpc = "call"
    /\ ret' = insert_lines_into_block(args.block_bbox, args.line_height,
                                      PageSize[1] * Unit, PageSize[2] * Unit)
    /\ cpc' = "returned"
    /\ UNCHANGED <<part, args, notCallVars>>

NextLines == InsertLines

SpecLines == InitLines /\ [][NextLines]_vars

-----------------------------------------------------------------------------
(* Line merging: merge_spans_to_line and line_sort_spans_by_left_to_right   *)
(* of magic_pdf/pre_proc/ocr_dict_merge.py, applied to the spans of one     *)
(* block.  The spans of a block are pairwise different dicts of positive    *)
(* height.                                                                  *)

\* lines 55-62: the span types that stand alone in a line
LineBreakingTypes == {SpanInterlineEquation, SpanImage, SpanTable}

\* a merging that looks at the vertical overlap only
RECURSIVE MergeScan_OverlapOnly(_, _, _, _, _)
MergeScan_OverlapOnly(sorted, n, d, merged, current_line) ==
    IF sorted = <<>> THEN Append(merged, current_line)
    ELSE LET span == Head(sorted)
         IN  IF is_overlaps_y_exceeds_threshold(span.bbox,
                     current_line[Len(current_line)].bbox, n, d)
             THEN MergeScan_OverlapOnly(Tail(sorted), n, d, merged, Append(current_line, span))
             ELSE MergeScan_OverlapOnly(Tail(sorted), n, d, Append(merged, current_line), <<span>>)

\* lines 52-78: the loop over spans[1:], then the last line
RECURSIVE MergeScan(_, _, _, _, _)
MergeScan(sorted, n, d, merged, current_line) ==
    IF sorted = <<>> THEN Append(merged, current_line)
    ELSE LET span == Head(sorted)
         IN  IF \/ span.type \in LineBreakingTypes
                \/ \E k \in 1..Len(current_line) : current_line[k].type \in LineBreakingTypes
             THEN MergeScan(Tail(sorted), n, d, Append(merged, current_line), <<span>>)
             ELSE IF is_overlaps_y_exceeds_threshold(span.bbox,
                          current_line[Len(current_line)].bbox, n, d)
             THEN MergeScan(Tail(sorted), n, d, merged, Append(current_line, span))
             ELSE MergeScan(Tail(sorted), n, d, Append(merged, current_line), <<span>>)

\* variant: lines are formed by the vertical overlap alone
merge_spans_to_line_OverlapOnly(sp, n, d) ==
    IF Len(sp) = 0 THEN <<>>
    ELSE LET sorted == SortByTop(sp, <<>>)
         IN  MergeScan_OverlapOnly(Tail(sorted), n, d, <<>>, <<Head(sorted)>>)

\* lines 32-80; the threshold is n/d; spans.sort is stable
merge_spans_to_line(sp, n, d) ==
    IF Len(sp) = 0 THEN <<>>
    ELSE LET sorted == SortByTop(sp, <<>>)
         IN  MergeScan(Tail(sorted), n, d, <<>>, <<Head(sorted)>>)

\* line 18: line.sort(key=lambda span: span['bbox'][0]), a stable sort
SortByLeft(line) ==
    LET rank(i) == Cardinality({j \in 1..Len(line) :
                        \/ line[j].bbox[1] < line[i].bbox[1]
                        \/ line[j].bbox[1] = line[i].bbox[1] /\ j <= i})
    IN  [r \in 1..Len(line) |-> line[CHOOSE i \in 1..Len(line) : rank(i) = r]]

\* lines 19-24
LineBbox(line) ==
    LET least(S) == CHOOSE x \in S : \A y \in S : x <= y
        greatest(S) == CHOOSE x \in S : \A y \in S : x >= y
    IN  <<least({line[k].bbox[1] : k \in 1..Len(line)}),
          least({line[k].bbox[2] : k \in 1..Len(line)}),
          greatest({line[k].bbox[3] : k \in 1..Len(line)}),
          greatest({line[k].bbox[4] : k \in 1..Len(line)})>>

\* lines 6-29
line_sort_spans_by_left_to_right(merged) ==
    [k \in 1..Len(merged) |->
        [bbox |-> LineBbox(SortByLeft(merged[k])), spans |-> SortByLeft(merged[k])]]

\* lines 190-209: the block gets 'lines' and loses 'spans'
fix_text_block(block) ==
    LET inline == [k \in 1..Len(block.spans) |->
                      IF block.spans[k].type = SpanInterlineEquation
                      THEN [block.spans[k] EXCEPT !.type = SpanInlineEquation]
                      ELSE block.spans[k]]
    IN  [type |-> block.type, bbox |-> block.bbox, group_id |-> block.group_id,
         lines |-> line_sort_spans_by_left_to_right(merge_spans_to_line(inline, 6, 10))]

\* lines 172-187
fix_discarded_block(blocks) == [k \in 1..Len(blocks) |-> fix_text_block(blocks[k])]

MaxLineSpans == 3

LineSpanUniverse ==
    { Span(<<20, 0, 30, 10>>, SpanText, 9),
      Span(<<0, 2, 10, 12>>, SpanText, 9),
      Span(<<40, 4, 50, 14>>, SpanText, 9),
      Span(<<35, 1, 45, 9>>, SpanInlineEquation, 9),
      Span(<<0, 3, 50, 13>>, SpanInterlineEquation, 9),
      Span(<<0, 1, 50, 11>>, SpanImage, 9),
      Span(<<60, 0, 70, 10>>, SpanTable, 9),
      Span(<<0, 20, 10, 30>>, SpanText, 9) }

InitMerge ==
    /\ part = "merge"
    /\ cpc = "call"
    /\ args \in DistinctSeqs(LineSpanUniverse, MaxLineSpans)
    /\ ret = <<>>
    /\ BlocksIdle
    /\ SpansIdle
    /\ OrderIdle
    /\ DocIdle
    /\ TextIdle
    /\ SingletonIdle

\* merge_spans_to_line(spans) and then line_sort_spans_by_left_to_right
MergeLines ==
    /\ part = "merge" /\ cpc = "call"
    /\ LET merged == merge_spans_to_line(args, 6, 10)
       IN  ret' = [merged |-> merged,
                   line_objects |-> line_sort_spans_by_left_to_right(merged)]
    /\ cpc' = "returned"
    /\ UNCHANGED <<part, args, notCallVars>>

NextMerge == MergeLines

SpecMerge == InitMerge /\ [][NextMerge]_vars

-----------------------------------------------------------------------------
(* AtomModelSingleton of magic_pdf/model/sub_modules/model_init2.py, called *)
(* by one thread, as in test_model_init2.py.  Objects are numbered as they  *)
(* are created; None is the number 0.                                       *)

NoObject == 0

MaxAtomCalls == 3

\* the keyword arguments of a call: those of the model key, and one more
AtomCalls ==
    [atom_model_name : {"layout", "ocr"}, layout_model_name : {"doclayout_yolo"},
     lang : {"none", "en"}, device : {"cpu", "cuda"}]

\* line 220
model_key(call) == <<call.atom_model_name, call.layout_model_name, call.lang>>

AtomKeys == {model_key(call) : call \in AtomCalls}

InitAtom ==
    /\ part = "atom"
    /\ thread_pc = <<"ready">>
    /\ shared = [instance |-> NoObject,
                 models |-> [k \in AtomKeys |-> NoObject],
                 cache |-> [c \in AtomCalls |-> NoObject],
                 created |-> [k \in AtomKeys |-> 0],
                 objects |-> 0]
    /\ local = <<>>
    /\ BlocksIdle
    /\ SpansIdle
    /\ OrderIdle
    /\ DocIdle
    /\ TextIdle
    /\ CallIdle

\* lines 211-214: AtomModelSingleton()
AtomNew ==
    /\ part = "atom" /\ Len(local) < MaxAtomCalls
    /\ LET fresh == shared.objects + 1
           made == IF shared.instance = NoObject
                   THEN [shared EXCEPT !.instance = fresh, !.objects = fresh]
                   ELSE shared
       IN  /\ shared' = made
           /\ local' = Append(local, [op |-> "new", result |-> made.instance])
    /\ UNCHANGED <<part, thread_pc, notSingletonVars>>

\* a get_atom_model that asks the factory on every call
get_atom_model_AlwaysCreates(state, call) ==
    LET fresh == state.objects + 1
    IN  [state |-> [state EXCEPT !.models[model_key(call)] = fresh,
                                 !.created[model_key(call)] = @ + 1,
                                 !.objects = fresh],
         result |-> fresh]

\* lines 216-226, with get_cached_model (lines 200-203): the lru_cache
\* returns the model it made for the same arguments
get_atom_model(state, call) ==
    LET fresh == state.objects + 1
        key == model_key(call)
    IN  IF state.models[key] # NoObject
        THEN [state |-> state, result |-> state.models[key]]
        ELSE IF state.cache[call] # NoObject
        THEN [state |-> [state EXCEPT !.models[key] = state.cache[call]],
              result |-> state.cache[call]]
        ELSE [state |-> [state EXCEPT !.models[key] = fresh,
                                      !.cache[call] = fresh,
                                      !.created[key] = @ + 1,
                                      !.objects = fresh],
              result |-> fresh]

\* singleton.get_atom_model(...) on the instance a construction returned
AtomGet ==
    /\ part = "atom" /\ Len(local) < MaxAtomCalls
    /\ \E call \in AtomCalls :
          LET r == get_atom_model(shared, call)
          IN  /\ shared' = r.state
              /\ local' = Append(local, [op |-> "get", key |-> model_key(call),
                                         created |-> r.state.created[model_key(call)],
                                         result |-> r.result])
    /\ UNCHANGED <<part, thread_pc, notSingletonVars>>

NextAtom ==
    \/ AtomNew
    \/ AtomGet

SpecAtom == InitAtom /\ [][NextAtom]_vars

-----------------------------------------------------------------------------
(* ModelSingleton of pdf_parse_union_core_v2.py (lines 55-79) called by     *)
(* threads: each thread makes up to MaxOps calls of get_model or            *)
(* clear_models on the one instance.  A step is one access of the dict or   *)
(* of the lock, which the interpreter does atomically; model_init returns   *)
(* a new model object.                                                      *)

MaxThreads == 2

MaxOps == 2

Threads == 1..MaxThreads

\* model_init (lines 461-495) knows this name only
ModelNames == {"layoutreader"}

NoThread == 0

IdleThread == [op |-> "none", name |-> "", ops |-> 0, result |-> NoObject, raised |-> "none"]

InitCoreModels ==
    /\ part = "core_models"
    /\ thread_pc = [t \in Threads |-> "idle"]
    /\ shared = [models |-> [n \in ModelNames |-> NoObject],
                 lock |-> NoThread,
                 inits |-> [n \in ModelNames |-> 0],
                 objects |-> 0]
    /\ local = [t \in Threads |-> IdleThread]
    /\ BlocksIdle
    /\ SpansIdle
    /\ OrderIdle
    /\ DocIdle
    /\ TextIdle
    /\ CallIdle

\* a thread calls get_model(model_name)
CoreCallGet(t) ==
    /\ part = "core_models" /\ thread_pc[t] = "idle" /\ local[t].ops < MaxOps
    /\ \E n \in ModelNames :
          local' = [local EXCEPT ![t] = [op |-> "get_model", name |-> n, ops |-> @.ops + 1,
                                         result |-> NoObject, raised |-> "none"]]
    /\ thread_pc' = [thread_pc EXCEPT ![t] = "line69"]
    /\ UNCHANGED <<part, shared, notSingletonVars>>

\* line 69: if model_name not in self._models, outside the lock
CoreGetCheck(t) ==
    /\ part = "core_models" /\ thread_pc[t] = "line69"
    /\ thread_pc' = [thread_pc EXCEPT ![t] =
                        IF shared.models[local[t].name] = NoObject THEN "line70" ELSE "line74"]
    /\ UNCHANGED <<part, shared, local, notSingletonVars>>

\* line 70: with self._lock
CoreGetAcquire(t) ==
    /\ part = "core_models" /\ thread_pc[t] = "line70"
    /\ shared.lock = NoThread
    /\ shared' = [shared EXCEPT !.lock = t]
    /\ thread_pc' = [thread_pc EXCEPT ![t] = "line71"]
    /\ UNCHANGED <<part, local, notSingletonVars>>

\* lines 71-73: the second check and model_init, then the lock is released
CoreGetInit(t) ==
    /\ part = "core_models" /\ thread_pc[t] = "line71"
    /\ shared.lock = t
    /\ LET n == local[t].name
           fresh == shared.objects + 1
       IN  shared' = IF shared.models[n] = NoObject
                     THEN [shared EXCEPT !.models[n] = fresh, !.inits[n] = @ + 1,
                                         !.objects = fresh, !.lock = NoThread]
                     ELSE [shared EXCEPT !.lock = NoThread]
    /\ thread_pc' = [thread_pc EXCEPT ![t] = "line74"]
    /\ UNCHANGED <<part, local, notSingletonVars>>

\* line 74: return self._models[model_name], outside the lock; a missing
\* key raises KeyError
CoreGetReturn(t) ==
    /\ part = "core_models" /\ thread_pc[t] = "line74"
    /\ LET n == local[t].name
       IN  IF shared.models[n] # NoObject
           THEN /\ local' = [local EXCEPT ![t].result = shared.models[n]]
                /\ thread_pc' = [thread_pc EXCEPT ![t] = "idle"]
           ELSE /\ local' = [local EXCEPT ![t].raised = "KeyError"]
                /\ thread_pc' = [thread_pc EXCEPT ![t] = "raised"]
    /\ UNCHANGED <<part, shared, notSingletonVars>>

\* a thread calls clear_models()
CoreCallClear(t) ==
    /\ part = "core_models" /\ thread_pc[t] = "idle" /\ local[t].ops < MaxOps
    /\ local' = [local EXCEPT ![t] = [op |-> "clear_models", name |-> "", ops |-> @.ops + 1,
                                      result |-> NoObject, raised |-> "none"]]
    /\ thread_pc' = [thread_pc EXCEPT ![t] = "line78"]
    /\ UNCHANGED <<part, shared, notSingletonVars>>

\* lines 78-79: with self._lock: self._models.clear()
CoreClear(t) ==
    /\ part = "core_models" /\ thread_pc[t] = "line78"
    /\ shared.lock = NoThread
    /\ shared' = [shared EXCEPT !.models = [n \in ModelNames |-> NoObject],
                                !.inits = [n \in ModelNames |-> 0]]
    /\ thread_pc' = [thread_pc EXCEPT ![t] = "idle"]
    /\ UNCHANGED <<part, local, notSingletonVars>>

NextCoreModels ==
    \E t \in Threads :
        \/ CoreCallGet(t)
        \/ CoreGetCheck(t)
        \/ CoreGetAcquire(t)
        \/ CoreGetInit(t)
        \/ CoreGetReturn(t)
        \/ CoreCallClear(t)
        \/ CoreClear(t)

SpecCoreModels == InitCoreModels /\ [][NextCoreModels]_vars

-----------------------------------------------------------------------------
(* ModelSingleton of magic_pdf/model/doc_analyze_by_custom_model.py (lines  *)
(* 36-78) called by threads: each thread constructs the singleton and       *)
(* calls get_model with one and the same key on what it got, up to MaxOps   *)
(* times.  A step is one access of a class attribute, of the dict or of a   *)
(* lock; custom_model_init returns a new model object.                      *)

IdleCaller == [ops |-> 0, instance |-> NoObject, lock |-> NoObject,
               result |-> NoObject, raised |-> "none"]

InitCustomModels ==
    /\ part = "custom_models"
    /\ thread_pc = [t \in Threads |-> "idle"]
    /\ shared = [instance |-> NoObject, lock |-> NoObject, models |-> NoObject,
                 held |-> {}, inits |-> 0, objects |-> 0]
    /\ local = [t \in Threads |-> IdleCaller]
    /\ BlocksIdle
    /\ SpansIdle
    /\ OrderIdle
    /\ DocIdle
    /\ TextIdle
    /\ CallIdle

\* a thread calls ModelSingleton()
CustomCallNew(t) ==
    /\ part = "custom_models" /\ thread_pc[t] = "idle" /\ local[t].ops < MaxOps
    /\ local' = [local EXCEPT ![t] = [IdleCaller EXCEPT !.ops = local[t].ops + 1]]
    /\ thread_pc' = [thread_pc EXCEPT ![t] = "line42"]
    /\ UNCHANGED <<part, shared, notSingletonVars>>

\* line 42: if cls._instance is None
CustomNewCheck(t) ==
    /\ part = "custom_models" /\ thread_pc[t] = "line42"
    /\ thread_pc' = [thread_pc EXCEPT ![t] =
                        IF shared.instance = NoObject THEN "line45" ELSE "line48"]
    /\ UNCHANGED <<part, shared, local, notSingletonVars>>

\* lines 44-45: with threading.Lock() takes a lock made for this call, which
\* no other thread can hold; then the second check
CustomNewCheck2(t) ==
    /\ part = "custom_models" /\ thread_pc[t] = "line45"
    /\ thread_pc' = [thread_pc EXCEPT ![t] =
                        IF shared.instance = NoObject THEN "line46" ELSE "line48"]
    /\ UNCHANGED <<part, shared, local, notSingletonVars>>

\* line 46: cls._instance = super().__new__(cls)
CustomNewCreate(t) ==
    /\ part = "custom_models" /\ thread_pc[t] = "line46"
    /\ shared' = [shared EXCEPT !.instance = shared.objects + 1,
                                !.objects = shared.objects + 1]
    /\ thread_pc' = [thread_pc EXCEPT ![t] = "line47"]
    /\ UNCHANGED <<part, local, notSingletonVars>>

\* line 47: cls._lock = threading.Lock()
CustomNewLock(t) ==
    /\ part = "custom_models" /\ thread_pc[t] = "line47"
    /\ shared' = [shared EXCEPT !.lock = shared.objects + 1,
                                !.objects = shared.objects + 1]
    /\ thread_pc' = [thread_pc EXCEPT ![t] = "line48"]
    /\ UNCHANGED <<part, local, notSingletonVars>>

\* line 48: return cls._instance; the caller goes on to get_model
CustomNewReturn(t) ==
    /\ part = "custom_models" /\ thread_pc[t] = "line48"
    /\ local' = [local EXCEPT ![t].instance = shared.instance]
    /\ thread_pc' = [thread_pc EXCEPT ![t] = "line64"]
    /\ UNCHANGED <<part, shared, notSingletonVars>>

\* line 64: with self._lock reads the class attribute; None is no context
\* manager and raises
CustomGetLock(t) ==
    /\ part = "custom_models" /\ thread_pc[t] = "line64"
    /\ IF shared.lock = NoObject
       THEN /\ local' = [local EXCEPT ![t].raised = "TypeError"]
            /\ thread_pc' = [thread_pc EXCEPT ![t] = "raised"]
       ELSE /\ local' = [local EXCEPT ![t].lock = shared.lock]
            /\ thread_pc' = [thread_pc EXCEPT ![t] = "line64_enter"]
    /\ UNCHANGED <<part, shared, notSingletonVars>>

\* line 64: the lock that was read is acquired
CustomGetAcquire(t) ==
    /\ part = "custom_models" /\ thread_pc[t] = "line64_enter"
    /\ local[t].lock \notin shared.held
    /\ shared' = [shared EXCEPT !.held = @ \cup {local[t].lock}]
    /\ thread_pc' = [thread_pc EXCEPT ![t] = "line65"]
    /\ UNCHANGED <<part, local, notSingletonVars>>

\* line 65: if key not in self._models
CustomGetCheck(t) ==
    /\ part = "custom_models" /\ thread_pc[t] = "line65"
    /\ thread_pc' = [thread_pc EXCEPT ![t] =
                        IF shared.models = NoObject THEN "line67" ELSE "line78"]
    /\ UNCHANGED <<part, shared, local, notSingletonVars>>

\* lines 67-74: self._models[key] = custom_model_init(...)
CustomGetInit(t) ==
    /\ part = "custom_models" /\ thread_pc[t] = "line67"
    /\ shared' = [shared EXCEPT !.models = shared.objects + 1,
                                !.inits = @ + 1,
                                !.objects = shared.objects + 1]
    /\ thread_pc' = [thread_pc EXCEPT ![t] = "line78"]
    /\ UNCHANGED <<part, local, notSingletonVars>>

\* line 78: return self._models[key], and the lock is released
CustomGetReturn(t) ==
    /\ part = "custom_models" /\ thread_pc[t] = "line78"
    /\ local' = [local EXCEPT ![t].result = shared.models]
    /\ shared' = [shared EXCEPT !.held = @ \ {local[t].lock}]
    /\ thread_pc' = [thread_pc EXCEPT ![t] = "idle"]
    /\ UNCHANGED <<part, notSingletonVars>>

NextCustomModels ==
    \E t \in Threads :
        \/ CustomCallNew(t)
        \/ CustomNewCheck(t)
        \/ CustomNewCheck2(t)
        \/ CustomNewCreate(t)
        \/ CustomNewLock(t)
        \/ CustomNewReturn(t)
        \/ CustomGetLock(t)
        \/ CustomGetAcquire(t)
        \/ CustomGetCheck(t)
        \/ CustomGetInit(t)
        \/ CustomGetReturn(t)

SpecCustomModels == InitCustomModels /\ [][NextCustomModels]_vars

Init == InitBlocks \/ InitSpans \/ InitOrder \/ InitGrid \/ InitGroup \/ InitDoc
        \/ InitText \/ InitGeometry \/ InitLines
        \/ InitMerge \/ InitAtom \/ InitCoreModels
        \/ InitCustomModels

Next == NextBlocks \/ NextSpans \/ NextOrder \/ NextGrid \/ NextGroup \/ NextDoc
        \/ NextText \/ NextGeometry \/ NextLines
        \/ NextMerge \/ NextAtom \/ NextCoreModels
        \/ NextCustomModels

Spec == Init /\ [][Next]_vars

-----------------------------------------------------------------------------
(* Properties of reading-order assignment *)

\* sort_lines_by_model has returned or raised
AfterSort == opc \in {"sorted", "raised", "indexed", "done"}

\* C9: when more line boxes were collected than the capacity limit, the
\* layoutreader model is never called, sort_lines_by_model returns None
\* and cal_block_index takes the xy-cut branch.
C9_CapacityOverflowFallsBack ==
    (AfterSort /\ Len(page_line_list) > CapacityLimit) =>
        /\ model_calls = 0
        /\ ~prediction.made
        /\ sorted_bboxes = None
        /\ opc # "raised"
        /\ opc \in {"indexed", "done"} => strategy = "xycut"

\* a page of 600 line boxes was ordered by xy-cut without a call of the model
C9_Witness ==
    /\ opc = "done"
    /\ Len(page_line_list) = 600
    /\ model_calls = 0
    /\ strategy = "xycut"
    /\ page_result = "page_info"

\* C10: a failure of the layoutreader call does not end the page with an
\* exception; the page is ordered by xy-cut and its result is returned.
C10_FailureAbsorbed ==
    prediction.raised =>
        /\ page_result # "exception"
        /\ opc = "done" => strategy = "xycut"

\* cal_block_index has returned
AfterIndex == opc \in {"indexed", "done"}

\* C11 (as claimed): after cal_block_index no two blocks of the page have the
\* same index, whichever strategy gave the indices.
C11_BlockIndicesDistinct ==
    AfterIndex =>
        \A i, j \in 1..Len(fix_blocks) : i # j => fix_blocks[i].index # fix_blocks[j].index

\* box a comes before box b by rows: a's row is above b's, or they are in
\* one row and a is left of b
RowMajorBefore(a, b) ==
    \/ a[4] <= b[2]
    \/ (a[2] < b[4] /\ b[2] < a[4] /\ a[3] <= b[1])

\* C12 (as claimed): on a grid of blocks the xy-cut branch gives the indices
\* in row-major order, top row left to right and then the next row, for
\* every order in which the blocks come in.
C12_GridRowMajor ==
    (part = "grid" /\ opc = "indexed") =>
        \A i, j \in 1..Len(fix_blocks) :
            RowMajorBefore(fix_blocks[i].bbox, fix_blocks[j].bbox)
                => fix_blocks[i].index < fix_blocks[j].index

\* the block of the page as it came in, before sort_lines_by_model
AsReceived(b) == CHOOSE u \in OrderBlockUniverse : u.type = b.type /\ u.bbox = b.bbox

LineBoxes(lines) == [k \in 1..Len(lines) |-> lines[k].bbox]

\* C13 (as claimed): after reading-order assignment the 'lines' of every
\* block are the lines the block came in with: a block that had real lines
\* has exactly those again, and no block holds a line box that
\* insert_lines_into_block made.
C13_NoVirtualLinesInOutput ==
    (part = "order" /\ AfterIndex) =>
        \A k \in 1..Len(fix_blocks) :
            LineBoxes(fix_blocks[k].lines) = LineBoxes(AsReceived(fix_blocks[k]).lines)

-----------------------------------------------------------------------------
(* Regrouping properties.                                                   *)

Regrouped == part \in {"order", "group"} /\ opc = "done"

KindTypes(kind) ==
    IF kind = Image THEN {ImageBody, ImageCaption, ImageFootnote}
    ELSE {TableBody, TableCaption, TableFootnote}

BodyType(kind) == IF kind = Image THEN ImageBody ELSE TableBody

\* the fragments of one group as they reach regrouping, in page order
Members(kind, g) ==
    SelectSeq(fix_blocks, LAMBDA b : b.type \in KindTypes(kind) /\ b.group_id = g)

GroupsOf(kind) ==
    {fix_blocks[k].group_id : k \in {j \in 1..Len(fix_blocks) : fix_blocks[j].type \in KindTypes(kind)}}

\* positions in the page result of the composites holding a fragment of the group
CompositesOf(kind, g) ==
    {k \in 1..Len(sorted_blocks) :
        /\ sorted_blocks[k].type = kind
        /\ \E c \in 1..Len(sorted_blocks[k].blocks) :
              sorted_blocks[k].blocks[c].group_id = g}

Ascending(blocks) ==
    \A i, j \in 1..Len(blocks) : i < j => blocks[i].index <= blocks[j].index

\* one composite for the group, holding its members, with the median index
\* and children in ascending order
OneComposite(kind, g) ==
    /\ Cardinality(CompositesOf(kind, g)) = 1
    /\ \A k \in CompositesOf(kind, g) :
          LET c == sorted_blocks[k]
              m == Members(kind, g)
          IN  /\ Len(c.blocks) = Len(m)
              /\ Range(c.blocks) = Range(m)
              /\ c.index = median([i \in 1..Len(m) |-> m[i].index], 1)
              /\ Ascending(c.blocks)

BodyBoxes(kind, g) ==
    {Members(kind, g)[i].bbox :
        i \in {j \in 1..Len(Members(kind, g)) : Members(kind, g)[j].type = BodyType(kind)}}

\* C14 (as claimed): every group of fragments gives exactly one composite,
\* whose bbox is the bbox of the group's body fragment, whose index is the
\* median of the members' indices and whose children are in ascending order
\* of index.
C14_CompositeOfBody ==
    Regrouped =>
        \A kind \in {Image, Table} : \A g \in GroupsOf(kind) :
            /\ OneComposite(kind, g)
            /\ \A k \in CompositesOf(kind, g) : sorted_blocks[k].bbox \in BodyBoxes(kind, g)

\* C14 (amended): as above, but the bbox is the body's bbox when the group
\* has a body fragment and the empty list when it has none.
C14_CompositeOfBodyOrEmpty ==
    Regrouped =>
        \A kind \in {Image, Table} : \A g \in GroupsOf(kind) :
            /\ OneComposite(kind, g)
            /\ \A k \in CompositesOf(kind, g) :
                  IF BodyBoxes(kind, g) = {} THEN sorted_blocks[k].bbox = NoBox
                  ELSE sorted_blocks[k].bbox \in BodyBoxes(kind, g)

\* a page where a group of three fragments arrived out of index order with
\* its body not first, next to a group without body
C14_Witness ==
    /\ part = "group" /\ opc = "done"
    /\ \E k \in 1..Len(sorted_blocks) :
          /\ sorted_blocks[k].type = Image
          /\ Len(sorted_blocks[k].blocks) = 3
          /\ sorted_blocks[k].blocks # Members(Image, 0)
          /\ Members(Image, 0)[1].type # ImageBody
    /\ \E k \in 1..Len(sorted_blocks) :
          sorted_blocks[k].type = Image /\ sorted_blocks[k].bbox = NoBox

\* the children of the composites and the blocks passed through, in the
\* order of the page result
RECURSIVE FlattenPage(_)
FlattenPage(blocks) ==
    IF blocks = <<>> THEN <<>>
    ELSE (IF Head(blocks).type \in {Image, Table} THEN Head(blocks).blocks
          ELSE <<Head(blocks)>>) \o FlattenPage(Tail(blocks))

\* C15: flattening the regrouped page gives the blocks that reached
\* regrouping, each once and unchanged (bbox included).
C15_RegroupFlattenRoundTrip ==
    Regrouped =>
        LET flat == FlattenPage(sorted_blocks)
        IN  /\ Len(flat) = Len(fix_blocks)
            /\ \A k \in 1..Len(fix_blocks) : Count(flat, fix_blocks[k]) = 1

\* a page with two composites, one of them with a footnote, and a block
\* passed through
C15_Witness ==
    /\ part = "group" /\ opc = "done"
    /\ Len(fix_blocks) = MaxFragments
    /\ \E i, j, k \in 1..Len(sorted_blocks) :
          /\ sorted_blocks[i].type = Image
          /\ \E c \in 1..Len(sorted_blocks[i].blocks) :
                sorted_blocks[i].blocks[c].type = ImageFootnote
          /\ sorted_blocks[j].type = Table
          /\ sorted_blocks[k].type = Text

-----------------------------------------------------------------------------
(* Document parsing properties.                                             *)

\* the page parser is at work on a page, or just raised on it
CurrentPage == dataset[page_id + 1]

HasTitleRow(blocks) ==
    \E i, j \in 1..Len(blocks) :
        i # j /\ TitlesOfOneRow(blocks[i], blocks[j], PageWidth)

\* C16 (as claimed): page parsing of a page with two single-line titles of
\* one row (vertical overlap, gap under 10% of the page width, heights
\* within 5%) ends with a page result, and no page result holds two such
\* titles: they have become one Title block.
C16_TitleRowsMerged ==
    part = "doc" =>
        /\ (dpc = "raised" /\ parse_mode \in {TXT, OCR}) => ~HasTitleRow(CurrentPage)
        /\ \A k \in 1..Len(pdf_info_dict) : ~HasTitleRow(pdf_info_dict[k].preproc_blocks)

\* the results of pages the page parser was called for
ParsedResults ==
    {k \in 1..Len(pdf_info_dict) : pdf_info_dict[k].page_idx >= start_page_id}

\* C19 (as claimed): a page without kept blocks gives a page result with no
\* blocks, need_drop true and a drop reason, and parsing it does not end
\* the document: no exception reaches the caller on such a page.
C19_EmptyPagesDropped ==
    part = "doc" =>
        /\ \A k \in ParsedResults :
              dataset[pdf_info_dict[k].page_idx + 1] = <<>> =>
                  /\ pdf_info_dict[k].preproc_blocks = <<>>
                  /\ pdf_info_dict[k].need_drop = TRUE
                  /\ pdf_info_dict[k].drop_reason # <<>>
        /\ (dpc = "raised" /\ parse_mode \in {TXT, OCR}) => CurrentPage # <<>>

\* C20: with a parse mode that is neither txt nor ocr no page is parsed to
\* a result: the document is done only when no page was to be parsed, and
\* every page the parser was called for ended in an exception.
C20_BadParseModeIsFatal ==
    (part = "doc" /\ parse_mode \notin {TXT, OCR}) =>
        /\ ParsedResults = {}
        /\ dpc = "document_done" => Len(dataset) <= start_page_id
        /\ dpc \in {"loop", "document_done"} => exception = "none"

\* UnionParser raised on the second page of a document for the parse mode
C20_Witness ==
    /\ part = "doc" /\ parser = "union" /\ parse_mode = "auto"
    /\ dpc = "raised" /\ exception = "Exception: parse_mode must be txt or ocr"
    /\ page_id = 1 /\ pdf_info_dict = <<>>

-----------------------------------------------------------------------------
(* Span Content Reconstruction properties.                                  *)

\* the fallback got text for the span: a non-empty text with score over 0.5
OcrGaveText(call) ==
    /\ call.contrast > 20
    /\ Len(call.ocr_res) > 0 /\ Len(call.ocr_res[1]) > 0
    /\ Len(call.ocr_res[1][1].text) > 0 /\ call.ocr_res[1][1].score > 50

\* C17 (as claimed): when txt_spans_extract_v2 returns, every span that was
\* routed to the OCR fallback and is still in the returned list got a
\* non-empty text with confidence over 0.5 from the fallback, and that text
\* is its content.
C17_OcrFallbackOutcome ==
    (part = "text" /\ tpc = "returned") =>
        \A c \in 1..Len(ocr_calls) : \A k \in 1..Len(txt_spans) :
            txt_spans[k].bbox = ocr_calls[c].bbox =>
                /\ OcrGaveText(ocr_calls[c])
                /\ txt_spans[k].content = ocr_calls[c].ocr_res[1][1].text

\* C18 (as claimed): once chars_to_content has run on the spans, every span
\* has the key 'content' and none has the key 'chars'.
C18_GlyphsNotPersisted ==
    (part = "text" /\ tpc \in {"filled", "returned"}) =>
        \A k \in 1..Len(txt_spans) :
            txt_spans[k].has_content /\ ~txt_spans[k].has_chars

-----------------------------------------------------------------------------
(* Geometry properties.                                                     *)

Measured == part = "geometry" /\ cpc = "returned"

SameRatio(r, q) == r[1] * q[2] = q[1] * r[2]

\* C21: calculate_iou(a, b) = calculate_iou(b, a), and calculate_iou(a, a) = 1
\* for every box a of non-zero area.
C21_IouSymmetricReflexive ==
    Measured =>
        /\ SameRatio(ret.iou_ab, ret.iou_ba)
        /\ box_area(args[1]) # 0 => SameRatio(ret.iou_aa, <<1, 1>>)

\* two different boxes of different areas that overlap in part
C21_Witness ==
    /\ Measured
    /\ ret.iou_ab[1] > 0 /\ ret.iou_ab[1] < ret.iou_ab[2]
    /\ box_area(args[1]) # box_area(args[2])

\* C22: a box inside another overlaps it, and two boxes inside each other
\* are equal.
C22_ContainmentOverlapsAntisymmetric ==
    Measured =>
        /\ ret.in_ab => ret.overlap_ab
        /\ (ret.in_ab /\ ret.in_ba) => args[1] = args[2]

\* a box strictly inside another
C22_Witness ==
    /\ Measured
    /\ ret.in_ab /\ ~ret.in_ba /\ ret.overlap_ab
    /\ box_area(args[1]) # 0

\* C23 (as claimed): left is true exactly when a lies entirely to the left
\* of b, right when entirely to the right, bottom when entirely below and
\* top when entirely above (y grows downwards).
C23_RelativePosition ==
    Measured =>
        /\ ret.pos_ab.left <=> args[1][3] < args[2][1]
        /\ ret.pos_ab.right <=> args[2][3] < args[1][1]
        /\ ret.pos_ab.bottom <=> args[2][4] < args[1][2]
        /\ ret.pos_ab.top <=> args[1][4] < args[2][2]

-----------------------------------------------------------------------------
(* Virtual-line properties.                                                 *)

LinesInserted == part = "lines" /\ cpc = "returned"

Ceil(a, b) == (a + b - 1) \div b

\* the number of lines of the rule table of the specification
RuleTableLines(block_bbox, lh, page_w, page_h) ==
    LET height == block_bbox[4] - block_bbox[2]
        width == block_bbox[3] - block_bbox[1]
    IN  IF height <= 2 * lh THEN 1
        ELSE IF 4 * height > page_h /\ 4 * width > page_w /\ 2 * width < page_w
             THEN Ceil(height, lh)
        ELSE IF 10 * width > 4 * page_w THEN 3
        ELSE IF 4 * width > page_w THEN Ceil(height, lh)
        ELSE IF 10 * height > 12 * width THEN 1
        ELSE 2

\* C25 (as claimed): insert_lines_into_block returns as many lines as the
\* rule table says: 1, ceil(height / line height), 3, ceil(height / line
\* height), 1 or 2, by the first case that applies.
C25_RuleTable ==
    LinesInserted =>
        Len(ret) = RuleTableLines(args.block_bbox, args.line_height,
                                  PageSize[1] * Unit, PageSize[2] * Unit)

\* C29 (as claimed): the lines have the x-range of the block, lie inside
\* the block, follow each other from top to bottom without overlapping,
\* and cover the block's height.
C29_LinesTileBlock ==
    LinesInserted =>
        /\ \A i \in 1..Len(ret) :
              /\ ret[i][1] = args.block_bbox[1] /\ ret[i][3] = args.block_bbox[3]
              /\ ret[i][2] >= args.block_bbox[2] /\ ret[i][4] <= args.block_bbox[4]
              /\ ret[i][2] <= ret[i][4]
        /\ \A i \in 1..(Len(ret) - 1) : ret[i][4] = ret[i + 1][2]
        /\ ret[1][2] = args.block_bbox[2]
        /\ ret[Len(ret)][4] = args.block_bbox[4]

-----------------------------------------------------------------------------
(* Line-merging properties.                                                 *)

Merged == part = "merge" /\ cpc = "returned"

\* the overlap of the y ranges is at least n/d of the shorter height
OverlapsYAtLeast(bbox1, bbox2, n, d) ==
    LET overlap == Max(0, Min(bbox1[4], bbox2[4]) - Max(bbox1[2], bbox2[2]))
        min_height == Min(bbox1[4] - bbox1[2], bbox2[4] - bbox2[2])
    IN  overlap * d >= n * min_height

\* C26: after merge_spans_to_line and line_sort_spans_by_left_to_right
\* every span is in exactly one line, the bbox of a line is the union of
\* its spans, the spans of a line are in ascending x0, an
\* InterlineEquation, Image or Table span is alone in its line, and a span
\* joined its line only when it overlapped the line's last span
\* vertically by at least 0.6 of the shorter height.
C26_LinesPartitionSpans ==
    Merged =>
        /\ \A s \in Range(args) :
              Cardinality({k \in 1..Len(ret.line_objects) :
                              InSeq(ret.line_objects[k].spans, s)}) = 1
        /\ \A k \in 1..Len(ret.line_objects) :
              LET line == ret.line_objects[k]
              IN  /\ Len(line.spans) > 0
                  /\ Distinct(line.spans)
                  /\ Range(line.spans) \subseteq Range(args)
                  /\ \A s \in Range(line.spans) : is_in(s.bbox, line.bbox)
                  /\ \A c \in 1..4 : \E s \in Range(line.spans) : s.bbox[c] = line.bbox[c]
                  /\ \A i \in 1..(Len(line.spans) - 1) :
                        line.spans[i].bbox[1] <= line.spans[i + 1].bbox[1]
                  /\ (\E s \in Range(line.spans) : s.type \in LineBreakingTypes)
                        => Len(line.spans) = 1
                  /\ Range(line.spans) = Range(ret.merged[k])
        /\ Len(ret.merged) = Len(ret.line_objects)
        /\ \A k \in 1..Len(ret.merged) :
              \A i \in 2..Len(ret.merged[k]) :
                  OverlapsYAtLeast(ret.merged[k][i].bbox, ret.merged[k][i - 1].bbox, 6, 10)

\* a line of two spans that the sort put in another order, next to a span
\* that stands alone because of its type
C26_Witness ==
    /\ Merged
    /\ \E k \in 1..Len(ret.merged) :
          /\ Len(ret.merged[k]) = 2
          /\ ret.merged[k] # ret.line_objects[k].spans
    /\ \E k \in 1..Len(ret.merged) : ret.merged[k][1].type \in LineBreakingTypes

-----------------------------------------------------------------------------
(* Spans and Discarded blocks.                                              *)

\* the span lies inside a block of category Discarded
InDiscardedRegion(blocks, x) ==
    \E k \in 1..Len(blocks) :
        blocks[k].type = Discarded /\ is_in(x.bbox, blocks[k].bbox)

\* no block of category Discarded holds a span, or a line after
\* fix_discarded_block
DiscardedStayEmpty(filled) ==
    \A k \in 1..Len(filled) :
        filled[k].type = Discarded =>
            /\ filled[k].spans = <<>>
            /\ fix_discarded_block(filled)[k].lines = <<>>

\* C30 (as claimed): fill_spans_in_blocks assigns no span to a Discarded
\* block, every span inside a Discarded region is in the leftover list,
\* and the Discarded block ends up with no lines.
C30_DiscardedRegionSpansLeftOver ==
    [][ FillDiscarded =>
          /\ DiscardedStayEmpty(discarded_block_with_spans')
          /\ \A x \in Range(spans) :
                InDiscardedRegion(fill_discarded, x) => InSeq(spans', x) ]_vars

\* C30 (amended): fill_spans_in_blocks assigns no span to a block of
\* category Discarded, which ends up with no lines; a span inside a
\* Discarded region is in the leftover list unless a block of another
\* category in the discarded list took it.
C30_DiscardedBlocksStayEmpty ==
    [][ FillDiscarded =>
          /\ DiscardedStayEmpty(discarded_block_with_spans')
          /\ \A x \in Range(spans) :
                InDiscardedRegion(fill_discarded, x) =>
                    \/ InSeq(spans', x)
                    \/ \E k \in 1..Len(fill_discarded) :
                          /\ fill_discarded[k].type # Discarded
                          /\ SpanFits(x, fill_discarded[k], 4, 10)
                          /\ InSeq(discarded_block_with_spans'[k].spans, x) ]_vars

\* a text span inside the Discarded block [0,700,600,720] is left over
C30_Witness ==
    /\ part = "spans" /\ spc = "discarded_filled"
    /\ \E x \in Range(spans) :
          /\ x.type = SpanText
          /\ InDiscardedRegion(fill_discarded, x)
    /\ \A k \in 1..Len(discarded_block_with_spans) :
          discarded_block_with_spans[k].spans = <<>>

-----------------------------------------------------------------------------
(* Singleton properties.                                                    *)

\* C24: every construction of AtomModelSingleton returns the same instance,
\* and two get_atom_model calls with the same (atom_model_name,
\* layout_model_name, lang) return the same model object, which was
\* created on the first of them only.
C24_AtomSingleton ==
    part = "atom" =>
        /\ \A i, j \in 1..Len(local) :
              (local[i].op = "new" /\ local[j].op = "new")
                  => (local[i].result = local[j].result /\ local[i].result # NoObject)
        /\ \A i, j \in 1..Len(local) :
              (local[i].op = "get" /\ local[j].op = "get" /\ local[i].key = local[j].key)
                  => /\ local[i].result = local[j].result
                     /\ local[i].result # NoObject
                     /\ local[i].created = 1 /\ local[j].created = 1

\* two constructions, and two calls for one key with different devices
C24_Witness ==
    /\ part = "atom"
    /\ \E i, j \in 1..Len(local) :
          /\ i < j
          /\ local[i].op = "get" /\ local[j].op = "get"
          /\ local[i].key = local[j].key
          /\ shared.cache[[atom_model_name |-> local[i].key[1],
                           layout_model_name |-> local[i].key[2],
                           lang |-> local[i].key[3], device |-> "cuda"]] = NoObject
          /\ shared.cache[[atom_model_name |-> local[i].key[1],
                           layout_model_name |-> local[i].key[2],
                           lang |-> local[i].key[3], device |-> "cpu"]] # NoObject
    /\ \E i \in 1..Len(local) : local[i].op = "new"

\* C27 (as claimed): whatever the interleaving of get_model and
\* clear_models calls, no get_model raises, every finished get_model
\* returned a model, and model_init ran at most once per name since the
\* last clear.
C27_GetModelNeverRaises ==
    part = "core_models" =>
        /\ \A t \in Threads :
              /\ local[t].raised = "none"
              /\ (thread_pc[t] = "idle" /\ local[t].op = "get_model")
                    => local[t].result # NoObject
        /\ \A n \in ModelNames : shared.inits[n] <= 1

\* C28 (as claimed): all threads that construct the ModelSingleton of
\* doc_analyze_by_custom_model get one and the same instance, all get_model
\* calls with the key return the same model, and custom_model_init runs at
\* most once for the key.
C28_OneInstanceOneInit ==
    part = "custom_models" =>
        /\ \A t, u \in Threads :
              (local[t].instance # NoObject /\ local[u].instance # NoObject)
                  => local[t].instance = local[u].instance
        /\ \A t, u \in Threads :
              (local[t].result # NoObject /\ local[u].result # NoObject)
                  => local[t].result = local[u].result
        /\ shared.inits <= 1

====
